---- MODULE Spec2Model ----
(***************************************************************************)
(* Model of the SOLAR n-body simulator: the explicit Runge-Kutta           *)
(* integrator (solar/math/integrator/rungekutta.py), the n-body force      *)
(* model and energy diagnostic (solar/math/physic/__init__.py) and the     *)
(* simulation driver (solar/solar_simulator.py).                           *)
(*                                                                         *)
(* Numbers.  Python floats are modelled as exact real values.  A value is  *)
(* a linear form: a function from atoms to non-zero rationals <<n, d>>.    *)
(* The atom One carries the rational part; the other atoms name the real   *)
(* quantities the force law and the energy formulas compute with a square  *)
(* root and a division (one atom per pairwise term), which are left        *)
(* uninterpreted.  The integrator and the driver are linear in those       *)
(* quantities, so every value they compute is such a form, exactly.        *)
(***************************************************************************)
EXTENDS Integers, Sequences, FiniteSets, TLC

VARIABLES rk, gen, out, obs, sim, drv, call, app

vars == <<rk, gen, out, obs, sim, drv, call, app>>

(***************************************************************************)
(* Bounds of the model.                                                    *)
(***************************************************************************)
MaxN == 2            \* largest step count n given to the integrator
MaxSetKwargs == 1    \* set_func_kwargs calls per integrator in the harness
MaxDuration == 3     \* largest simulation duration (hours) given to the driver
MaxRuns == 2         \* run_simulation calls per SOLARSimulator
MaxSetterCalls == 2  \* position/velocity assignments per Body
MaxSequences == 2    \* run_simulation() sequences obtained from one integrator
MaxStates == 4       \* states requested from one integrator over all its sequences

(***************************************************************************)
(* Rationals <<n, d>>, d > 0, in lowest terms.                             *)
(***************************************************************************)
Abs(x) == IF x < 0 THEN -x ELSE x

RECURSIVE GCD(_, _)
GCD(a, b) == IF b = 0 THEN a ELSE GCD(b, a % b)

Q(n, d) ==
    LET g == GCD(Abs(n), Abs(d))
        s == IF d < 0 THEN -1 ELSE 1
    IN  <<(s * n) \div g, (s * d) \div g>>

RZero == <<0, 1>>
ROne == <<1, 1>>
RInt(n) == <<n, 1>>

RAdd(a, b) ==
    LET g == GCD(a[2], b[2])
    IN  Q(a[1] * (b[2] \div g) + b[1] * (a[2] \div g), (a[2] \div g) * b[2])

RNeg(a) == <<-a[1], a[2]>>

RMul(a, b) ==
    LET g1 == GCD(Abs(a[1]), b[2])
        g2 == GCD(Abs(b[1]), a[2])
    IN  IF a[1] = 0 \/ b[1] = 0 THEN RZero
        ELSE <<(a[1] \div g1) * (b[1] \div g2), (a[2] \div g2) * (b[2] \div g1)>>

RDiv(a, b) == RMul(a, Q(b[2], b[1]))

(***************************************************************************)
(* Real values: linear forms over atoms.                                   *)
(***************************************************************************)
One == <<"one">>

NumZero == [a \in {} |-> RZero]

Num(q) == IF q = RZero THEN NumZero ELSE (One :> q)

Coef(x, a) == IF a \in DOMAIN x THEN x[a] ELSE RZero

\* The float nan: every sum and every product with it is nan.
NaN == (<<"nan">> :> <<1, 1>>)

NumAdd(x, y) ==
    IF x = NaN \/ y = NaN THEN NaN
    ELSE LET D == DOMAIN x \cup DOMAIN y
             s == [a \in D |-> RAdd(Coef(x, a), Coef(y, a))]
         IN  [a \in {b \in D : s[b] # RZero} |-> s[a]]

NumScale(x, q) ==
    IF x = NaN THEN NaN
    ELSE IF q = RZero THEN NumZero ELSE [a \in DOMAIN x |-> RMul(x[a], q)]

NumSub(x, y) == NumAdd(x, NumScale(y, RInt(-1)))

Atom(a) == (a :> ROne)

RECURSIVE NumSum(_)
NumSum(xs) == IF xs = <<>> THEN NumZero ELSE NumAdd(NumSum(SubSeq(xs, 1, Len(xs) - 1)), xs[Len(xs)])

(***************************************************************************)
(* Vector (solar/math/tools/vector.py): a sequence of real values.         *)
(***************************************************************************)
Vector(qs) == [i \in 1..Len(qs) |-> Num(qs[i])]

\* An addition that pairs the entries with zip and never compares the lengths.
VectorAddRaisesNever(u, v) == FALSE

\* Vector.__add__: the empty operand is absorbed, unequal lengths raise.
VectorAddRaises(u, v) == Len(v) # 0 /\ Len(u) # Len(v)

\* An addition with the entrywise operation of __sub__.
VectorAddSubtracting(u, v) ==
    IF Len(v) = 0 THEN u
    ELSE [i \in 1..(IF Len(u) < Len(v) THEN Len(u) ELSE Len(v)) |-> NumSub(u[i], v[i])]

VectorAdd(u, v) ==
    IF Len(v) = 0 THEN u
    ELSE [i \in 1..(IF Len(u) < Len(v) THEN Len(u) ELSE Len(v)) |-> NumAdd(u[i], v[i])]

\* Vector.__sub__
VectorSubRaises(u, v) == Len(v) # 0 /\ Len(u) # Len(v)

VectorSub(u, v) ==
    IF Len(v) = 0 THEN u
    ELSE [i \in 1..(IF Len(u) < Len(v) THEN Len(u) ELSE Len(v)) |-> NumSub(u[i], v[i])]

\* Vector.__matmul__: 0 for an empty right operand, unequal lengths raise;
\* the entries multiplied are rational numbers.
VectorMatmulRaises(u, v) == Len(v) # 0 /\ Len(u) # Len(v)

VectorMatmul(u, v) ==
    IF Len(v) = 0 THEN NumZero
    ELSE NumSum([i \in 1..(IF Len(u) < Len(v) THEN Len(u) ELSE Len(v)) |->
                    Num(RMul(Coef(u[i], One), Coef(v[i], One)))])

\* Vector.__eq__ with another Vector (a nan element equals nothing)
VectorEq(u, o) == Len(u) = Len(o) /\ \A i \in 1..Len(u) : u[i] # NaN /\ u[i] = o[i]

\* Vector.__getitem__ with an int i (counted from 0): only i >= len is
\* checked, the tuple then takes a negative i from the end or raises
VectorGetitem(u, i) ==
    IF i >= Len(u) THEN [exc |-> "IndexError"]
    ELSE IF i < 0 - Len(u) THEN [exc |-> "IndexError"]
    ELSE [exc |-> "", value |-> IF i < 0 THEN u[Len(u) + i + 1] ELSE u[i + 1]]

\* a bound of a slice: None, or an int k written <<k>>
None == <<>>

\* Vector.__getitem__ with slice(start, stop): a negative start and a stop
\* beyond the length raise; the tuple then slices as Python does
VectorGetslice(u, start, stop) ==
    IF start # None /\ start[1] < 0 THEN [exc |-> "IndexError"]
    ELSE IF stop # None /\ stop[1] > Len(u) THEN [exc |-> "IndexError"]
    ELSE LET lo == IF start = None THEN 0
                   ELSE IF start[1] > Len(u) THEN Len(u) ELSE start[1]
             hi == IF stop = None THEN Len(u)
                   ELSE IF stop[1] >= 0 THEN stop[1]
                   ELSE IF Len(u) + stop[1] < 0 THEN 0 ELSE Len(u) + stop[1]
         IN  [exc |-> "", value |-> SubSeq(u, lo + 1, hi)]

\* Vector.__mul__: scaling by a real number.
VectorMul(u, q) == [i \in 1..Len(u) |-> NumScale(u[i], q)]

RECURSIVE VectorConcat(_)
VectorConcat(vs) == IF vs = <<>> THEN <<>> ELSE VectorConcat(SubSeq(vs, 1, Len(vs) - 1)) \o vs[Len(vs)]


(***************************************************************************)
(* Matrix (solar/math/tools/matrix.py): a sequence of lines, each a        *)
(* Vector.  Every operation gives [exc |-> ...] when it raises and         *)
(* [exc |-> "", value |-> ...] when it returns.                            *)
(***************************************************************************)
\* Matrix.__init__: the checks that raise ValueError
MatrixRaises(m) ==
    \/ Len(m) = 0
    \/ Len(m[Len(m)]) = 0
    \/ \E i \in 1..Len(m) : Len(m[i]) # Len(m[Len(m)])

\* Matrix.__init__: the tuple of the lines, each rebuilt as a Vector
Matrix(m) == [i \in 1..Len(m) |-> [j \in 1..Len(m[i]) |-> m[i][j]]]

\* self.__class__(rows)
MatrixNew(rows) ==
    IF MatrixRaises(rows) THEN [exc |-> "ValueError"]
    ELSE [exc |-> "", value |-> Matrix(rows)]

\* the properties lines and columns
lines(M) == Len(M)
columns(M) == Len(M[Len(M)])

\* Matrix.__add__
MatrixAdd(M, N) ==
    IF lines(M) # lines(N) \/ columns(M) # columns(N) THEN [exc |-> "ValueError"]
    ELSE MatrixNew([i \in 1..lines(M) |-> VectorAdd(M[i], N[i])])

\* M - N: Matrix defines neither __sub__ nor __rsub__, and Sequence gives
\* none, so the operator is unsupported
MatrixSub(M, N) == [exc |-> "TypeError"]

\* Matrix.__mul__
MatrixMul(M, number) == MatrixNew([i \in 1..lines(M) |-> VectorMul(M[i], number)])

\* Matrix.__get_line_slice: stop is taken from the query only when start is
\* given; start >= stop with stop None is a TypeError
MatrixGetLineSlice(M, start, stop) ==
    IF start # None /\ stop = None THEN [exc |-> "TypeError"]
    ELSE LET lo == IF start = None THEN 0 ELSE start[1]
             hi == IF start = None THEN lines(M) ELSE stop[1]
         IN  IF lo >= hi \/ lo < 0 \/ hi > lines(M) THEN [exc |-> "ValueError"]
             ELSE [exc |-> "", value |-> SubSeq(M, lo + 1, hi)]

\* one coordinate of a query: an int, or a slice of two bounds
Index(k) == [kind |-> "int", start |-> <<k>>, stop |-> None]
Slice(start, stop) == [kind |-> "slice", start |-> start, stop |-> stop]

\* Matrix.__getitem__ with a 2-tuple, the branch of a slice of lines
MatrixGetitemLines(M, q0, q1) ==
    LET sub == MatrixGetLineSlice(M, q0.start, q0.stop)
    IN  IF sub.exc # "" THEN sub
        ELSE IF q1.kind = "int"
        THEN IF q1.start[1] >= columns(M) THEN [exc |-> "IndexError"]
             ELSE IF \E i \in 1..Len(sub.value) :
                        VectorGetitem(sub.value[i], q1.start[1]).exc # ""
             THEN [exc |-> "IndexError"]
             ELSE [exc |-> "",
                   value |-> [i \in 1..Len(sub.value) |->
                                 VectorGetitem(sub.value[i], q1.start[1]).value]]
        ELSE IF \E i \in 1..Len(sub.value) :
                   VectorGetslice(sub.value[i], q1.start, q1.stop).exc # ""
        THEN [exc |-> "IndexError"]
        ELSE MatrixNew([i \in 1..Len(sub.value) |->
                           VectorGetslice(sub.value[i], q1.start, q1.stop).value])

\* Matrix.__getitem__ with a 2-tuple, the branch of an int line
MatrixGetitemLine(M, q0, q1) ==
    LET i == q0.start[1]
    IN  IF i >= lines(M) \/ i < 0 - lines(M) THEN [exc |-> "IndexError"]
        ELSE LET sub_ == M[IF i < 0 THEN lines(M) + i + 1 ELSE i + 1]
             IN  IF q1.kind = "int"
                 THEN IF q1.start[1] >= columns(M) THEN [exc |-> "IndexError"]
                      ELSE VectorGetitem(sub_, q1.start[1])
                 ELSE VectorGetslice(sub_, q1.start, q1.stop)

\* Matrix.__getitem__ with the 2-tuple (q0, q1)
MatrixGetitem(M, q0, q1) ==
    IF q0.kind = "slice" THEN MatrixGetitemLines(M, q0, q1)
    ELSE MatrixGetitemLine(M, q0, q1)

\* A product that reads line j of the right operand for its column j.
MatrixColumnAsLine(M, j) == M[IF j + 1 <= lines(M) THEN j + 1 ELSE 1]

\* m[:, j], the column the product reads
MatrixColumn(M, j) == MatrixGetitem(M, Slice(None, None), Index(j)).value

\* Matrix.__matmul__: the check that raises ValueError
MatrixMatmulRaises(M, N) == columns(M) # lines(N)

\* Matrix.__matmul__: each entry is line @ column
MatrixMatmul(M, N) ==
    IF MatrixMatmulRaises(M, N) THEN [exc |-> "ValueError"]
    ELSE IF \E i \in 1..lines(M), j \in 1..columns(N) :
               VectorMatmulRaises(M[i], MatrixColumn(N, j - 1))
    THEN [exc |-> "ValueError"]
    ELSE MatrixNew([i \in 1..lines(M) |->
            [j \in 1..columns(N) |-> VectorMatmul(M[i], MatrixColumn(N, j - 1))]])


(***************************************************************************)
(* Body (solar/math/physic/body.py).  id stands for the object's identity  *)
(* (Body defines no __eq__, so bodies compare by identity).                *)
(***************************************************************************)
BodyRaises(mass, position, velocity) ==
    mass[1] <= 0 \/ Len(position) # 3 \/ Len(velocity) # 3

Body(id, mass, position, velocity, name) ==
    [id |-> id, mass |-> mass, position |-> position, velocity |-> velocity, name |-> name]

\* A position setter that assigns before it checks the dimension.
BodySetPositionUnchecked(body, _v) ==
    [exc |-> IF Len(_v) # 3 THEN "ValueError" ELSE "",
     body |-> [body EXCEPT !.position = _v]]

\* body.position = _v: the exception raised ("" when none) and the body after
BodySetPosition(body, _v) ==
    IF Len(_v) # 3 THEN [exc |-> "ValueError", body |-> body]
    ELSE [exc |-> "", body |-> [body EXCEPT !.position = _v]]

\* body.velocity = _v
BodySetVelocity(body, _v) ==
    IF Len(_v) # 3 THEN [exc |-> "ValueError", body |-> body]
    ELSE [exc |-> "", body |-> [body EXCEPT !.velocity = _v]]

\* A flattening that puts the velocity ahead of the position.
BodyFlattenVelocityFirst(body) == <<Num(body.mass)>> \o body.velocity \o body.position

\* Body.flatten: (m, px, py, pz, vx, vy, vz)
BodyFlatten(body) == <<Num(body.mass)>> \o body.position \o body.velocity

\* flatten(bodies, split_mass): with split_mass, (Vector of 6 entries per
\* body, tuple of masses); without, the Vector of 7 entries per body
RECURSIVE flatten(_, _)
flatten(bodies, split_mass) ==
    IF bodies = <<>>
    THEN IF split_mass THEN [params |-> <<>>, masses |-> <<>>] ELSE <<>>
    ELSE LET k == Len(bodies)
             rest == flatten(SubSeq(bodies, 1, k - 1), split_mass)
             flattened == BodyFlatten(bodies[k])
         IN  IF split_mass
             THEN [params |-> rest.params \o SubSeq(flattened, 2, 7),
                   masses |-> Append(rest.masses, bodies[k].mass)]
             ELSE rest \o flattened

(***************************************************************************)
(* Force model and energy diagnostic (solar/math/physic/__init__.py).      *)
(***************************************************************************)
\* An exclusion that compares bodies by their values.
excludeByValue(bodies, obj) ==
    SelectSeq(bodies, LAMBDA d : <<d.mass, d.position, d.velocity>>
                                    # <<obj.mass, obj.position, obj.velocity>>)

\* exclude(iterable, obj): the elements d with d != obj (identity for Body)
exclude(bodies, obj) == SelectSeq(bodies, LAMBDA d : d.id # obj.id)

\* a vector with a nan entry
HasNaN(v) == \E i \in 1..Len(v) : v[i] = NaN

\* get_acceleration: Vector3D(0, 0, 0) plus one term dir * (G * m_other / r^3)
\* per other body.  The atom <<"acc", q, i, j, m, a>> is component a of the
\* term of body j (mass m) in the acceleration of body i, at the positions of
\* derivative evaluation number q.  Positions are numpy arrays: at distance
\* r = 0 the division gives inf (a warning, no exception) and dir * inf,
\* with dir = (0, 0, 0), is nan in every component; so is a term computed
\* from a nan coordinate.
get_acceleration(others, particle, q) ==
    [a \in 1..3 |->
        NumSum([o \in 1..Len(others) |->
            IF \/ others[o].position = particle.position
               \/ HasNaN(others[o].position) \/ HasNaN(particle.position)
            THEN NaN
            ELSE Atom(<<"acc", q, particle.id, others[o].id, others[o].mass, a>>)])]

\* A reconstruction that reads the velocity before the position.
StateBodiesVelocityFirst(state, masses) ==
    LET k == IF Len(state) \div 6 < Len(masses) THEN Len(state) \div 6 ELSE Len(masses)
    IN  [i \in 1..k |->
            Body(i, masses[i], SubSeq(state, 6 * i - 2, 6 * i),
                 SubSeq(state, 6 * i - 5, 6 * i - 3), "@")]

\* The bodies rebuilt from a flat state and the masses, paired by zip.
StateBodies(state, masses) ==
    LET k == IF Len(state) \div 6 < Len(masses) THEN Len(state) \div 6 ELSE Len(masses)
    IN  [i \in 1..k |->
            Body(i, masses[i], SubSeq(state, 6 * i - 5, 6 * i - 3),
                 SubSeq(state, 6 * i - 2, 6 * i), "@")]

\* A derivative that forgets to compare the two lengths.
n_bodyRaisesUnchecked(current_state, masses) ==
    IF \E i \in 1..Len(masses) : masses[i][1] <= 0 THEN "AssertionError"
    ELSE ""

n_bodyRaises(current_state, masses) ==
    IF \E i \in 1..Len(masses) : masses[i][1] <= 0 THEN "AssertionError"
    ELSE IF 6 * Len(masses) # Len(current_state) THEN "ValueError"
    ELSE ""

\* n_body(t, current_state, masses): velocity and acceleration of every body,
\* in state order.  q numbers the evaluation (it only names the atoms).
n_body(q, t, current_state, masses) ==
    LET body_list == StateBodies(current_state, masses)
    IN  VectorConcat([i \in 1..Len(body_list) |->
            body_list[i].velocity
            \o get_acceleration(exclude(body_list, body_list[i]), body_list[i], q)])

\* get_gravitational_energy: -(sum over i < j of G * m_i * m_j / |p_i - p_j|);
\* the atom <<"U", m_i, m_j, p_i, p_j>> is one such term (the infinite one
\* when p_i = p_j), and a term computed from a nan coordinate is nan.
get_gravitational_energy(particles) ==
    NumScale(
        NumSum([i \in 1..Len(particles) |->
            NumSum([d \in 1..(Len(particles) - i) |->
                IF HasNaN(particles[i].position) \/ HasNaN(particles[i + d].position)
                THEN NaN
                ELSE Atom(<<"U", particles[i].mass, particles[i + d].mass,
                            particles[i].position, particles[i + d].position>>)])]),
        RInt(-1))

\* get_kinetic_energy_gen: sum of norm(v * m, 2)^2 / (2 m); the atom <<"T", m, v>>
\* is one such term, nan when computed from a nan coordinate.
get_kinetic_energy_gen(particles) ==
    NumSum([i \in 1..Len(particles) |->
        IF HasNaN(particles[i][2]) THEN NaN
        ELSE Atom(<<"T", particles[i][1], particles[i][2]>>)])

hamiltonian(particles) ==
    NumAdd(get_gravitational_energy(particles),
           get_kinetic_energy_gen([i \in 1..Len(particles) |->
               <<particles[i].mass, particles[i].velocity>>]))


(***************************************************************************)
(* Butcher tableaux: the static fields A, b, c of the ARK subclasses.      *)
(***************************************************************************)
Half == <<1, 2>>
Third == <<1, 3>>
Sixth == <<1, 6>>

ERK4_A == << <<RZero, RZero, RZero, RZero>>,
             <<Half,  RZero, RZero, RZero>>,
             <<RZero, Half,  RZero, RZero>>,
             <<RZero, RZero, ROne,  RZero>> >>
ERK4_b == <<Sixth, Third, Third, Sixth>>
ERK4_c == <<RZero, Half, Half, ROne>>

\* The ARK subclasses the model runs: ERK4, and the TestRK class of the unit
\* tests with the A, b, c a test gives it.
Classes == {"ERK4", "wrong_A", "malformed_A", "full_A", "wide_A", "narrow_A"}

Tableau(cls) ==
    CASE cls = "ERK4" -> [A |-> ERK4_A, b |-> ERK4_b, c |-> ERK4_c]
      [] cls = "wrong_A" ->
            [A |-> << <<RInt(1), RInt(2)>>, <<RInt(3), RInt(4)>> >>,
             b |-> <<RInt(1), RInt(2), RInt(4)>>, c |-> <<RInt(1), RInt(2), RInt(3)>>]
      [] cls = "malformed_A" ->
            [A |-> << <<RInt(1), RInt(2)>>, <<RInt(3), RInt(4), RInt(3)>> >>,
             b |-> <<RInt(1), RInt(2)>>, c |-> <<RInt(1), RInt(2)>>]
      [] cls = "full_A" ->
            [A |-> << <<RInt(1), RInt(2)>>, <<RInt(3), RInt(4)>> >>,
             b |-> <<RInt(1), RInt(2)>>, c |-> <<RInt(1), RInt(2)>>]
      [] cls = "wide_A" ->
            [A |-> << <<RZero, RZero, RZero>>, <<ROne, RZero, RZero>> >>,
             b |-> <<Half, Half>>, c |-> <<RZero, ROne>>]
      [] cls = "narrow_A" ->
            [A |-> << <<RZero>>, <<Half>>, <<RZero>> >>,
             b |-> <<RZero, RZero, ROne>>, c |-> <<RZero, Half, Half>>]

(***************************************************************************)
(* The derivative functions given to the integrator: the f of the unit     *)
(* tests, lambda t, s: Vector(t + s[0]), and n_body.                       *)
(***************************************************************************)
NoKwargs == <<>>

FuncRaises(func, t, y, kw) ==
    CASE func = "test_f" ->
            IF DOMAIN kw # {} THEN "TypeError"
            ELSE IF Len(y) = 0 THEN "IndexError" ELSE ""
      [] func = "n_body" ->
            IF DOMAIN kw # {"masses"} THEN "TypeError"
            ELSE n_bodyRaises(y, kw.masses)

FuncValue(func, q, t, y, kw) ==
    CASE func = "test_f" -> <<NumAdd(Num(t), y[1])>>
      [] func = "n_body" -> n_body(q, t, y, kw.masses)

(***************************************************************************)
(* ARK (solar/math/integrator/rungekutta.py).                              *)
(***************************************************************************)
\* A constructor that forgets the check of the null domain.
ARKInitRaisesStepsOnly(t0, tn, n) == n <= 0

\* ARK.__init__: the two checks that raise ValueError
ARKInitRaises(t0, tn, n) == RAdd(t0, RNeg(tn)) = RZero \/ n <= 0

\* ARK.__init__: the fields of the new integrator
ARKInit(cls, f, y0, t0, tn, n) ==
    IF ARKInitRaises(t0, tn, n)
    THEN [status |-> "ValueError", cls |-> cls]
    ELSE [status |-> "ready", cls |-> cls, func |-> f, y0 |-> y0, y0_id |-> 1,
          h |-> RDiv(RAdd(tn, RNeg(t0)), RInt(n)), n |-> n,
          current_t |-> t0, f_kwargs |-> NoKwargs]

\* ARK.__sum: [] for no vectors, else the vectors added onto a zero array
RECURSIVE ARKSum(_)
ARKSum(vectors) ==
    IF vectors = <<>> THEN <<>>
    ELSE LET m == Len(vectors)
             acc == IF m = 1 THEN [i \in 1..Len(vectors[m]) |-> NumZero]
                    ELSE ARKSum(SubSeq(vectors, 1, m - 1))
         IN  [i \in 1..Len(acc) |-> NumAdd(acc[i], vectors[m][i])]

\* run_simulation, the checks of the tableau's format
TableauRaises(tab) ==
    \/ Len(tab.A) # Len(tab.c) \/ Len(tab.c) # Len(tab.b) \/ Len(tab.A) # Len(tab.b)
    \/ \E i \in 1..Len(tab.A) :
          Len(tab.A[i]) # Len(tab.A[IF i = 1 THEN Len(tab.A) ELSE i - 1])

\* A stage that evaluates f at the time the step starts at.
StageTimeAtStepStart(current_t, c_i, h) == current_t

\* run_simulation, stage i of a step: the time given to f
StageTime(current_t, c_i, h) == RAdd(current_t, RMul(c_i, h))

\* run_simulation, stage i (1-based) of a step: the argument given to f
StageIndexError(tab, i) == \E j \in 1..(i - 1) : j > Len(tab.A[i])

\* A stage that reads the tableau transposed, A[j, i] for A[i, j].
StageSumTransposed(tab, k_list, i) ==
    ARKSum([j \in 1..Len(k_list) |->
        VectorMul(k_list[j], IF i <= Len(tab.A[j]) THEN tab.A[j][i] ELSE RZero)])

StageSum(tab, k_list, i) ==
    ARKSum([j \in 1..Len(k_list) |-> VectorMul(k_list[j], tab.A[i][j])])

\* run_simulation, the end of a step: the sum of b_i * k_i over zip(b, k_list)
StepIncrement(tab, k_list) ==
    LET m == IF Len(tab.b) < Len(k_list) THEN Len(tab.b) ELSE Len(k_list)
    IN  ARKSum([i \in 1..m |-> VectorMul(k_list[i], tab.b[i])])

\* run_simulation, the end of a step: y0 += sum of b_i * k_i
StepUpdate(tab, y0, k_list) == VectorAdd(y0, StepIncrement(tab, k_list))

\* An augmented assignment that changes the object in place, as that of a
\* mutable container does.
IAddInPlace(heap, id, x) ==
    [heap |-> [heap EXCEPT ![id] = VectorAdd(heap[id], x)], id |-> id]

\* self.__y0 += x, with heap the objects that hold state vectors, by
\* identity, and id the object self.__y0 names.  Vector has no __iadd__: the
\* name is rebound to self.__y0 + x, which is a new Vector, or self when x is
\* empty.
IAdd(heap, id, x) ==
    IF Len(x) = 0 THEN [heap |-> heap, id |-> id]
    ELSE [heap |-> Append(heap, VectorAdd(heap[id], x)), id |-> Len(heap) + 1]

\* A run that iterates range(n) instead of range(n + 1).
IterationsShort(n) == n

\* run_simulation: the number of iterations of its loop, range(n + 1)
Iterations(n) == n + 1

NoGen == [pc |-> "none", it |-> 0, k_list |-> <<>>, value |-> <<>>, exc |-> ""]

\* The records kept about a run, for the properties: the constructor's
\* arguments, the derivative evaluations of the current step, the number of
\* evaluations and of emitted states, the state the current step started
\* from, and what set_func_kwargs was given; and the objects that hold
\* state vectors (heap, object number 1 being the y0 given to the
\* constructor) with the identities of the emitted ones.
NoObs == [args |-> <<>>, calls |-> <<>>, n_calls |-> 0, n_yield |-> 0, base |-> <<>>,
          kw_given |-> NoKwargs, kw_seen |-> {}, kw_midrun |-> FALSE, n_sets |-> 0,
          heap |-> <<>>, emitted |-> <<>>, sequences |-> 0, resumed_at |-> 0]

\* rk = cls(f, y0, t0, tn, n)
Construct(cls, f, y0, t0, tn, n) ==
    /\ rk' = ARKInit(cls, f, y0, t0, tn, n)
    /\ gen' = NoGen
    /\ obs' = [NoObs EXCEPT !.args = [cls |-> cls, func |-> f, y0 |-> y0,
                                      t0 |-> t0, tn |-> tn, n |-> n],
                            !.base = y0,
                            !.heap = <<y0>>]

\* A set_func_kwargs that does not store what it is given.
set_func_kwargsDropped(kw) ==
    /\ rk.status = "ready"
    /\ obs' = [obs EXCEPT !.kw_given = kw, !.n_sets = @ + 1,
                          !.kw_midrun = @ \/ gen.pc \notin {"none", "created"}]
    /\ UNCHANGED <<rk, gen>>

\* rk.set_func_kwargs(**kw)
set_func_kwargs(kw) ==
    /\ rk.status = "ready"
    /\ rk' = [rk EXCEPT !.f_kwargs = kw]
    /\ obs' = [obs EXCEPT !.kw_given = kw, !.n_sets = @ + 1,
                          !.kw_midrun = @ \/ gen.pc \notin {"none", "created"}]
    /\ UNCHANGED gen

\* gen = rk.run_simulation(): a generator, whose body has not started
run_simulation ==
    /\ rk.status = "ready"
    /\ gen.pc = "none"
    /\ gen' = [NoGen EXCEPT !.pc = "created"]
    /\ obs' = [obs EXCEPT !.sequences = 1]
    /\ UNCHANGED rk

\* A second sequence that starts over from the constructor's arguments.
run_simulation_restarting ==
    /\ rk.status = "ready"
    /\ gen.pc \in {"yielded", "done"}
    /\ obs.sequences < MaxSequences
    /\ gen' = [NoGen EXCEPT !.pc = "created"]
    /\ rk' = [rk EXCEPT !.y0 = obs.args.y0, !.y0_id = 1, !.current_t = obs.args.t0]
    /\ obs' = [obs EXCEPT !.sequences = @ + 1, !.resumed_at = obs.n_yield,
                          !.calls = <<>>, !.base = obs.args.y0]

\* gen = rk.run_simulation() once more, the earlier generator being
\* suspended at a yield or finished: a new generator over the same object,
\* whose fields __y0 and __current_t are what the earlier steps left
run_simulation_again ==
    /\ rk.status = "ready"
    /\ gen.pc \in {"yielded", "done"}
    /\ obs.sequences < MaxSequences
    /\ gen' = [NoGen EXCEPT !.pc = "created"]
    /\ obs' = [obs EXCEPT !.sequences = @ + 1, !.resumed_at = obs.n_yield,
                          !.calls = <<>>, !.base = rk.y0]
    /\ UNCHANGED rk

\* first next(gen): the checks of the tableau, then the first iteration begins
GenStart ==
    /\ gen.pc = "created"
    /\ IF TableauRaises(Tableau(rk.cls))
       THEN gen' = [gen EXCEPT !.pc = "raised", !.exc = "ValueError"]
       ELSE gen' = [gen EXCEPT !.pc = "stage", !.it = 0, !.k_list = <<>>]
    /\ obs' = [obs EXCEPT !.calls = <<>>]
    /\ UNCHANGED rk

\* one stage of the current iteration: k_list.append(f(...) * h).  fault is
\* the exception the call of f ends with for a reason outside the model (""
\* when there is none).
Stage(fault) ==
    /\ gen.pc = "stage"
    /\ Len(gen.k_list) < Len(Tableau(rk.cls).c)
    /\ LET tab == Tableau(rk.cls)
           i == Len(gen.k_list) + 1
           t == StageTime(rk.current_t, tab.c[i], rk.h)
       IN  IF StageIndexError(tab, i)
           THEN /\ gen' = [gen EXCEPT !.pc = "raised", !.exc = "IndexError"]
                /\ obs' = obs
           ELSE IF VectorAddRaises(rk.y0, StageSum(tab, gen.k_list, i))
           THEN /\ gen' = [gen EXCEPT !.pc = "raised", !.exc = "ValueError"]
                /\ obs' = obs
           ELSE LET y == VectorAdd(rk.y0, StageSum(tab, gen.k_list, i))
                    e == IF fault # "" THEN fault ELSE FuncRaises(rk.func, t, y, rk.f_kwargs)
                    o == [obs EXCEPT !.calls = Append(@, [t |-> t, y |-> y, kw |-> rk.f_kwargs]),
                                     !.n_calls = @ + 1,
                                     !.kw_seen = @ \cup {rk.f_kwargs}]
                IN  /\ obs' = o
                    /\ IF e # ""
                       THEN gen' = [gen EXCEPT !.pc = "raised", !.exc = e]
                       ELSE gen' = [gen EXCEPT !.k_list = Append(@,
                                VectorMul(FuncValue(rk.func, obs.n_calls, t, y, rk.f_kwargs), rk.h))]
    /\ UNCHANGED rk

GenStage == Stage("")

\* the end of an iteration: update y0 and current_t, yield y0
GenYield ==
    /\ gen.pc = "stage"
    /\ Len(gen.k_list) = Len(Tableau(rk.cls).c)
    /\ LET upd == IAdd(obs.heap, rk.y0_id, StepIncrement(Tableau(rk.cls), gen.k_list))
       IN  /\ rk' = [rk EXCEPT !.y0 = StepUpdate(Tableau(rk.cls), rk.y0, gen.k_list),
                               !.y0_id = upd.id,
                               !.current_t = RAdd(rk.current_t, rk.h)]
           /\ obs' = [obs EXCEPT !.n_yield = @ + 1, !.heap = upd.heap,
                                 !.emitted = Append(@, upd.id)]
    /\ gen' = [gen EXCEPT !.pc = "yielded", !.value = rk'.y0]

\* next(gen) after a yield: the next iteration of range(n + 1), or the end
GenResume ==
    /\ gen.pc = "yielded"
    /\ IF gen.it + 1 < Iterations(rk.n)
       THEN /\ gen' = [gen EXCEPT !.pc = "stage", !.it = @ + 1, !.k_list = <<>>]
            /\ obs' = [obs EXCEPT !.calls = <<>>, !.base = gen.value]
       ELSE /\ gen' = [gen EXCEPT !.pc = "done"]
            /\ obs' = obs
    /\ UNCHANGED rk

(***************************************************************************)
(* The integrator on its own, as the unit tests use it:                    *)
(*   t = cls(f, y, t0, tn, n); list(t.run_simulation())                    *)
(***************************************************************************)
Mass1 == RInt(3)
Mass2 == RInt(1)
Sun == Body(1, Mass1, Vector(<<RInt(0), RInt(0), RInt(0)>>),
            Vector(<<RInt(0), RInt(0), RInt(0)>>), "sun")
Earth == Body(2, Mass2, Vector(<<RInt(4), RInt(0), RInt(0)>>),
              Vector(<<RInt(0), RInt(1), RInt(0)>>), "earth")

\* The driver's position in run_simulation and what the properties need to
\* know about the run: the calls of the two callbacks, the exception raised
\* inside the run and where, the exception the call of run_simulation ended
\* with, and the outcome of show_results.
NoDrv == [pc |-> "idle", t |-> 0, runs |-> 0, completed |-> 0, cb |-> <<>>,
          after |-> 0, after_at |-> 0, exc |-> "", raised |-> "", raised_in |-> "",
          show |-> ""]

\* The last call the harness made of a function or method of the library
\* outside a simulation: its name, its arguments, the exception it raised
\* ("" when it returned), the value it returned, and the operands after it.
NoCall == [op |-> "none"]

\* The application after build(): the cancel flag, the popup on screen, the
\* worker thread of the last simulation started, the number of simulations
\* started, and what the properties need to know about each of them: the
\* simulations during which the cancel button was pressed, those stopped by
\* the flag, those whose completion callback ran, those whose show_res is
\* scheduled and those whose show_res displayed results; and the exception
\* that ended the application.
NoApp == [cancel |-> FALSE, popup |-> "none", thread |-> "none", run |-> 0,
          requested |-> {}, cancelled |-> {}, closed |-> {}, scheduled |-> {},
          shown |-> {}, crashed |-> ""]

TestFuncs == {"test_f", "n_body"}
TestY0(f) == IF f = "test_f" THEN {Vector(<<RInt(0)>>)}
             ELSE {flatten(<<Earth>>, TRUE).params, flatten(<<Sun, Earth>>, TRUE).params}
TestKwargs == {[masses |-> <<Mass2>>], [masses |-> <<Mass1, Mass2>>]}
TestT0 == {RInt(5)}
TestWidths == {-1, 2}
TestN == -1..MaxN
TestTn(t0, n) == {t0} \cup {RAdd(t0, RInt(w * (IF n > 0 THEN n ELSE 1))) : w \in TestWidths}

Init ==
    /\ rk = [status |-> "none"]
    /\ gen = NoGen
    /\ out = <<>>
    /\ obs = NoObs
    /\ sim = [status |-> "none"]
    /\ drv = NoDrv
    /\ call = NoCall
    /\ app = NoApp

TestConstruct ==
    /\ rk.status = "none"
    /\ \E cls \in Classes, f \in TestFuncs, t0 \in TestT0, n \in TestN :
         \E y0 \in TestY0(f), tn \in TestTn(t0, n) :
            Construct(cls, f, y0, t0, tn, n)
    /\ UNCHANGED <<out, sim, drv>>
    /\ UNCHANGED <<call, app>>

TestSetKwargs ==
    /\ gen.pc \in {"none", "created", "yielded"}
    /\ obs.n_sets < MaxSetKwargs
    /\ \E kw \in TestKwargs : set_func_kwargs(kw)
    /\ UNCHANGED <<out, sim, drv>>
    /\ UNCHANGED <<call, app>>

TestRunSimulation == run_simulation /\ UNCHANGED <<out, sim, drv>> /\ UNCHANGED <<call, app>>

TestStart == GenStart /\ UNCHANGED <<out, sim, drv>> /\ UNCHANGED <<call, app>>

TestStage == GenStage /\ UNCHANGED <<out, sim, drv>> /\ UNCHANGED <<call, app>>

\* list() appends the state the generator yields
TestYield == GenYield /\ out' = Append(out, gen'.value) /\ UNCHANGED <<sim, drv>> /\ UNCHANGED <<call, app>>

TestResume == GenResume /\ UNCHANGED <<out, sim, drv>> /\ UNCHANGED <<call, app>>

Next ==
    \/ TestConstruct
    \/ TestSetKwargs
    \/ TestRunSimulation
    \/ TestStart
    \/ TestStage
    \/ TestYield
    \/ TestResume

Spec == Init /\ [][Next]_vars

\* The same, with a further rk.run_simulation() after states were consumed.
TestRunSimulationAgain ==
    run_simulation_again /\ UNCHANGED <<out, sim, drv>> /\ UNCHANGED <<call, app>>

\* the harness asks for a bounded number of states
TestResumeAgain == obs.n_yield < MaxStates /\ TestResume

TestStartAgain == obs.n_yield < MaxStates /\ TestStart

NextAgain ==
    \/ TestConstruct
    \/ TestSetKwargs
    \/ TestRunSimulation
    \/ TestStartAgain
    \/ TestStage
    \/ TestYield
    \/ TestResumeAgain
    \/ TestRunSimulationAgain

SpecAgain == Init /\ [][NextAgain]_vars


(***************************************************************************)
(* SOLARSimulator (solar/solar_simulator.py).                              *)
(***************************************************************************)
HOUR == 3600

EmptyDict == <<>>

\* A constructor that forgets the upper bound of the step.
SimInitRaisesNoUpperBound(data, duration, step) ==
    IF \/ \E i, j \in 1..Len(data) : i # j /\ data[i].id = data[j].id
       \/ \E i, j \in 1..Len(data) :
             data[i].id # data[j].id /\ data[i].position = data[j].position
    THEN "BodyError"
    ELSE IF duration <= 0 THEN "ValueError"
    ELSE IF step <= 0 THEN "ValueError"
    ELSE ""

\* __init__: the checks, in order: BodyError, then the two ValueErrors
SimInitRaises(data, duration, step) ==
    IF \/ \E i, j \in 1..Len(data) : i # j /\ data[i].id = data[j].id
       \/ \E i, j \in 1..Len(data) :
             data[i].id # data[j].id /\ data[i].position = data[j].position
    THEN "BodyError"
    ELSE IF duration <= 0 THEN "ValueError"
    ELSE IF step <= 0 \/ step > duration THEN "ValueError"
    ELSE ""

SimInit(data, duration, step) ==
    IF SimInitRaises(data, duration, step) # ""
    THEN [status |-> SimInitRaises(data, duration, step)]
    ELSE [status |-> "ready", data |-> data, duration |-> duration, step |-> step,
          error |-> EmptyDict, statedict |-> EmptyDict]

\* A step count rounded up instead of truncated.
StepCountCeiling(duration, step) ==
    (duration * HOUR + step * HOUR - 1) \div (step * HOUR)

\* run_simulation: the step count given to ERK4, int((stop - start) / step)
StepCount(duration, step) == (duration * HOUR) \div (step * HOUR)

\* run_simulation: the new trajectories, {i: {'x': [], 'y': [], 'z': [], 'name': ...}}
NewStatedict(data) ==
    [i \in 1..Len(data) |-> [x |-> <<>>, y |-> <<>>, z |-> <<>>, name |-> data[i].name]]

\* run_simulation: the new energy series, {'x': [0], 'y': [h], 'dy': [0]}
NewError(h) == [x |-> <<0>>, y |-> <<h>>, dy |-> <<NumZero>>]

\* run_simulation: the position of every body of t_state is appended
RecordTrajectories(statedict, t_state) ==
    [i \in 1..(Len(t_state) \div 6) |->
        [statedict[i] EXCEPT !.x = Append(@, t_state[6 * i - 5]),
                             !.y = Append(@, t_state[6 * i - 4]),
                             !.z = Append(@, t_state[6 * i - 3])]]

\* An energy series stamped with the time reached after the step.
RecordEnergyElapsed(error, t, step, h) ==
    [x |-> Append(error.x, (t + 1) * step),
     dy |-> Append(error.dy, NumSub(h, error.y[Len(error.y)])),
     y |-> Append(error.y, h)]

\* An energy series whose delta is taken after the new value is appended.
RecordEnergyLate(error, t, step, h) ==
    [x |-> Append(error.x, t * step),
     dy |-> Append(error.dy, NumSub(h, h)),
     y |-> Append(error.y, h)]

\* run_simulation: the time, the delta to the last value, and the value are appended
RecordEnergy(error, t, step, h) ==
    [x |-> Append(error.x, t * step),
     dy |-> Append(error.dy, NumSub(h, error.y[Len(error.y)])),
     y |-> Append(error.y, h)]

\* show_results: the check of the call order
ShowResultsRaises(s) == s.error = EmptyDict \/ s.statedict = EmptyDict

\* show_results: __scale takes max() of every trajectory
ScaleRaises(s) ==
    \E i \in 1..Len(s.statedict) :
        s.statedict[i].x = <<>> \/ s.statedict[i].y = <<>> \/ s.statedict[i].z = <<>>

\* The statements of the loop body with the callback ahead of the recording.
LoopOrderCallbackFirst == <<"callback", "record", "next">>

\* run_simulation: the loop body records the state, calls loop_callBack, and
\* goes back to the for statement
LoopOrder == <<"record", "callback", "next">>

AfterStatement(pc) ==
    LoopOrder[1 + CHOOSE i \in 1..(Len(LoopOrder) - 1) : LoopOrder[i] = pc]

Raised(d, exc, where) == [d EXCEPT !.raised = exc, !.raised_in = where]

\* A loop that catches what loop_callBack raises and goes on.
FailSwallowed(d, exc, where) ==
    IF where = "loop_callBack"
    THEN [Raised(d, exc, where) EXCEPT !.pc = AfterStatement("callback")]
    ELSE [Raised(d, exc, where) EXCEPT !.pc = "idle", !.exc = exc]

\* An exception raised inside run_simulation is not caught: the call ends
Fail(d, exc, where) == [Raised(d, exc, where) EXCEPT !.pc = "idle", !.exc = exc]

Sun2 == Body(3, Mass1, Vector(<<RInt(0), RInt(0), RInt(0)>>),
             Vector(<<RInt(1), RInt(0), RInt(0)>>), "sun2")
Systems == {<<>>, <<Earth>>, <<Sun, Earth>>, <<Earth, Sun>>, <<Sun, Sun2>>, <<Sun, Sun>>}
Durations == -1..MaxDuration
StepSizes == 0..(MaxDuration + 1)

\* sim = SOLARSimulator(data, duration, step)
SimConstruct ==
    /\ sim.status = "none"
    /\ \E data \in Systems, duration \in Durations, step \in StepSizes :
          /\ sim' = SimInit(data, duration, step)
          /\ call' = [op |-> "SOLARSimulator",
                      args |-> [data |-> data, duration |-> duration, step |-> step],
                      exc |-> SimInitRaises(data, duration, step)]
    /\ UNCHANGED <<rk, gen, out, obs, drv, app>>

\* sim.run_simulation(loop_callBack, after_callBack), up to the for loop:
\* the series are reset, the integrator is built and its generator created.
SimRunStart ==
    /\ sim.status = "ready"
    /\ drv.pc = "idle"
    /\ drv.runs < MaxRuns
    /\ LET f == flatten(sim.data, TRUE)
           d == [drv EXCEPT !.runs = @ + 1, !.t = 0, !.cb = <<>>, !.after = 0,
                            !.after_at = 0, !.exc = "", !.raised = "", !.raised_in = "",
                            !.show = ""]
       IN  \E fault \in {"", "Exception"} :
             IF fault # ""
             THEN /\ sim' = [sim EXCEPT !.statedict = NewStatedict(sim.data)]
                  /\ drv' = Fail(d, fault, "hamiltonian(data)")
                  /\ UNCHANGED <<rk, gen, obs>>
             ELSE /\ sim' = [sim EXCEPT !.statedict = NewStatedict(sim.data),
                                        !.error = NewError(hamiltonian(sim.data))]
                  /\ Construct("ERK4", "n_body", f.params, RZero, RInt(sim.duration * HOUR),
                               StepCount(sim.duration, sim.step))
                  /\ IF rk'.status # "ready"
                     THEN drv' = Fail(d, rk'.status, "ERK4")
                     ELSE drv' = [d EXCEPT !.pc = "kwargs"]
    /\ out' = <<>>
    /\ UNCHANGED <<call, app>>

\* rk4.set_func_kwargs(masses=masses)
SimSetKwargs ==
    /\ drv.pc = "kwargs"
    /\ set_func_kwargs([masses |-> flatten(sim.data, TRUE).masses])
    /\ drv' = [drv EXCEPT !.pc = "call"]
    /\ UNCHANGED <<out, sim>>
    /\ UNCHANGED <<call, app>>

\* rk4.run_simulation(), the iterable of the for loop
SimRunIntegrator ==
    /\ drv.pc = "call"
    /\ run_simulation
    /\ drv' = [drv EXCEPT !.pc = "iter"]
    /\ UNCHANGED <<out, sim>>
    /\ UNCHANGED <<call, app>>

\* the for loop asks the generator for its first state
SimStart ==
    /\ drv.pc = "iter"
    /\ GenStart
    /\ drv' = IF gen'.pc = "raised" THEN Fail(drv, gen'.exc, "run_simulation") ELSE drv
    /\ UNCHANGED <<out, sim>>
    /\ UNCHANGED <<call, app>>

\* a derivative evaluation of the integrator, inside the for loop's next()
SimStage ==
    /\ drv.pc = "iter"
    /\ \E fault \in {"", "Exception"} : Stage(fault)
    /\ drv' = IF gen'.pc = "raised" THEN Fail(drv, gen'.exc, "n_body") ELSE drv
    /\ UNCHANGED <<out, sim>>
    /\ UNCHANGED <<call, app>>

\* the generator yields t_state to the for loop
SimYield ==
    /\ drv.pc = "iter"
    /\ GenYield
    /\ out' = Append(out, gen'.value)
    /\ drv' = [drv EXCEPT !.pc = LoopOrder[1]]
    /\ UNCHANGED sim
    /\ UNCHANGED <<call, app>>

\* the loop body up to the callback: trajectories, Hamiltonian, energy series
SimRecord ==
    /\ drv.pc = "record"
    /\ LET t_state == gen.value
           masses == flatten(sim.data, TRUE).masses
           traj == RecordTrajectories(sim.statedict, t_state)
           h == hamiltonian(StateBodies(t_state, masses))
       IN  \E fault \in {"", "Exception"} :
             IF fault # ""
             THEN /\ sim' = [sim EXCEPT !.statedict = traj]
                  /\ drv' = Fail(drv, fault, "hamiltonian")
             ELSE /\ sim' = [sim EXCEPT !.statedict = traj,
                                        !.error = RecordEnergy(sim.error, drv.t, sim.step, h)]
                  /\ drv' = [drv EXCEPT !.pc = AfterStatement("record")]
    /\ UNCHANGED <<rk, gen, out, obs>>
    /\ UNCHANGED <<call, app>>

\* loop_callBack(t, *loop_callback_args): it returns or raises
SimCallback ==
    /\ drv.pc = "callback"
    /\ LET d == [drv EXCEPT !.cb = Append(@,
                    [t |-> drv.t,
                     points |-> {Len(sim.statedict[i][c]) : i \in 1..Len(sim.statedict),
                                                            c \in {"x", "y", "z"}},
                     entries |-> {Len(sim.error[c]) : c \in {"x", "y", "dy"}},
                     n_calls |-> obs.n_calls,
                     n_yield |-> obs.n_yield])]
       IN  \E fault \in {"", "Exception"} :
             IF fault # ""
             THEN drv' = Fail(d, fault, "loop_callBack")
             ELSE drv' = [d EXCEPT !.pc = AfterStatement("callback")]
    /\ UNCHANGED <<rk, gen, out, obs, sim>>
    /\ UNCHANGED <<call, app>>

\* the for loop asks the generator for the next state (enumerate counts on)
SimResume ==
    /\ drv.pc = "next"
    /\ GenResume
    /\ drv' = [drv EXCEPT !.pc = IF gen'.pc = "done" THEN "after" ELSE "iter", !.t = @ + 1]
    /\ UNCHANGED <<out, sim>>
    /\ UNCHANGED <<call, app>>

\* after_callBack(*after_callback_args): it returns, which ends the run, or raises
SimAfter ==
    /\ drv.pc = "after"
    /\ LET d == [drv EXCEPT !.after = @ + 1, !.after_at = Len(drv.cb)]
       IN  \E fault \in {"", "Exception"} :
             IF fault # ""
             THEN drv' = Fail(d, fault, "after_callBack")
             ELSE drv' = [d EXCEPT !.pc = "idle", !.completed = @ + 1]
    /\ UNCHANGED <<rk, gen, out, obs, sim>>
    /\ UNCHANGED <<call, app>>

\* sim.show_results(), called between runs
SimShowResults ==
    /\ sim.status = "ready"
    /\ drv.pc = "idle"
    /\ drv' = [drv EXCEPT !.show = IF ShowResultsRaises(sim) THEN "RuntimeError"
                                   ELSE IF ScaleRaises(sim) THEN "ValueError"
                                   ELSE "shown"]
    /\ UNCHANGED <<rk, gen, out, obs, sim>>
    /\ UNCHANGED <<call, app>>

NextSim ==
    \/ SimConstruct
    \/ SimRunStart
    \/ SimSetKwargs
    \/ SimRunIntegrator
    \/ SimStart
    \/ SimStage
    \/ SimYield
    \/ SimRecord
    \/ SimCallback
    \/ SimResume
    \/ SimAfter
    \/ SimShowResults

SpecSim == Init /\ [][NextSim]_vars

(***************************************************************************)
(* The application: SolarApp.run_simulation runs on the UI thread, creates *)
(* the simulator, opens the progress popup and starts a worker thread that *)
(* runs the driver with progression_callback and close_popup_callback; the *)
(* popup's cancel button calls cancel_sim on the UI thread.  The model     *)
(* keeps one driver, so a simulation is started only once the worker of    *)
(* the last one has ended.                                                 *)
(***************************************************************************)
\* SolarApp.run_simulation(system, duration, step): a BodyError opens the
\* error popup, any other exception of the constructor leaves the handler
\* uncaught; otherwise the popup is opened and the thread started.
GuiRunSimulation ==
    /\ app.crashed = ""
    /\ app.popup = "none"
    /\ app.thread \in {"none", "exited", "finished"}
    /\ app.run < MaxRuns
    /\ \E system \in Systems, duration \in Durations, step \in StepSizes :
          LET exc == SimInitRaises(system, duration, step)
          IN  IF exc = "BodyError"
              THEN /\ app' = [app EXCEPT !.popup = "error"]
                   /\ UNCHANGED sim
              ELSE IF exc # ""
              THEN /\ app' = [app EXCEPT !.crashed = exc]
                   /\ UNCHANGED sim
              ELSE /\ sim' = SimInit(system, duration, step)
                   /\ app' = [app EXCEPT !.popup = "progress", !.thread = "running",
                                         !.run = @ + 1]
    /\ UNCHANGED <<rk, gen, out, obs, drv, call>>

\* dismiss_error_popup, the error popup's ok button
GuiDismissErrorPopup ==
    /\ app.crashed = ""
    /\ app.popup = "error"
    /\ app' = [app EXCEPT !.popup = "none"]
    /\ UNCHANGED <<rk, gen, out, obs, sim, drv, call>>

\* cancel_sim, the progress popup's cancel button
cancel_sim ==
    /\ app.crashed = ""
    /\ app.popup = "progress"
    /\ app' = [app EXCEPT !.cancel = TRUE, !.requested = @ \cup {app.run}]
    /\ UNCHANGED <<rk, gen, out, obs, sim, drv, call>>

\* thread_callback: the worker calls current_sim.run_simulation
thread_callback ==
    /\ app.thread = "running"
    /\ drv.runs < app.run
    /\ SimRunStart

\* progression_callback(current_step), with the call of loop_callBack
\* recorded in d: a set flag is cleared, the popup dismissed and sys.exit()
\* raises SystemExit, which ends the thread.
progression_callback(d) ==
    IF app.cancel
    THEN /\ drv' = Fail(d, "SystemExit", "loop_callBack")
         /\ app' = [app EXCEPT !.cancel = FALSE, !.popup = "none", !.thread = "exited",
                               !.cancelled = @ \cup {app.run}]
    ELSE /\ drv' = [d EXCEPT !.pc = AfterStatement("callback")]
         /\ UNCHANGED app

\* loop_callBack(t) in the worker
GuiCallback ==
    /\ drv.pc = "callback"
    /\ progression_callback(
          [drv EXCEPT !.cb = Append(@,
              [t |-> drv.t,
               points |-> {Len(sim.statedict[i][c]) : i \in 1..Len(sim.statedict),
                                                      c \in {"x", "y", "z"}},
               entries |-> {Len(sim.error[c]) : c \in {"x", "y", "dy"}},
               n_calls |-> obs.n_calls,
               n_yield |-> obs.n_yield])])
    /\ UNCHANGED <<rk, gen, out, obs, sim, call>>

\* after_callBack() in the worker: close_popup_callback dismisses the popup
close_popup_callback ==
    /\ drv.pc = "after"
    /\ drv' = [drv EXCEPT !.after = @ + 1, !.after_at = Len(drv.cb), !.pc = "idle",
                          !.completed = @ + 1]
    /\ app' = [app EXCEPT !.popup = "none", !.closed = @ \cup {app.run}]
    /\ UNCHANGED <<rk, gen, out, obs, sim, call>>

\* thread_callback after run_simulation returned: Clock.schedule_once(show_res)
GuiScheduleShowRes ==
    /\ app.thread = "running"
    /\ drv.runs = app.run
    /\ drv.pc = "idle"
    /\ drv.exc = ""
    /\ app' = [app EXCEPT !.thread = "finished", !.scheduled = @ \cup {app.run}]
    /\ UNCHANGED <<rk, gen, out, obs, sim, drv, call>>

\* An exception raised inside run_simulation ends the worker; the popup stays.
GuiThreadDies ==
    /\ app.thread = "running"
    /\ drv.runs = app.run
    /\ drv.pc = "idle"
    /\ drv.exc # ""
    /\ app' = [app EXCEPT !.thread = "dead"]
    /\ UNCHANGED <<rk, gen, out, obs, sim, drv, call>>

\* show_res on the UI thread: current_sim.show_results()
show_res ==
    /\ app.crashed = ""
    /\ \E r \in app.scheduled :
          LET show == IF ShowResultsRaises(sim) THEN "RuntimeError"
                      ELSE IF ScaleRaises(sim) THEN "ValueError"
                      ELSE "shown"
          IN  /\ drv' = [drv EXCEPT !.show = show]
              /\ app' = [app EXCEPT !.scheduled = @ \ {r},
                                    !.shown = IF show = "shown" THEN @ \cup {r} ELSE @,
                                    !.crashed = IF show = "shown" THEN "" ELSE show]
    /\ UNCHANGED <<rk, gen, out, obs, sim, call>>

NextGui ==
    \/ GuiRunSimulation
    \/ GuiDismissErrorPopup
    \/ cancel_sim
    \/ thread_callback
    \/ SimSetKwargs
    \/ SimRunIntegrator
    \/ SimStart
    \/ SimStage
    \/ SimYield
    \/ SimRecord
    \/ GuiCallback
    \/ SimResume
    \/ close_popup_callback
    \/ GuiScheduleShowRes
    \/ GuiThreadDies
    \/ show_res

SpecGui == Init /\ [][NextGui]_vars

(***************************************************************************)
(* Calls of the library's functions and methods outside a simulation, as   *)
(* the unit tests make them: one call, its outcome, then the next test.    *)
(***************************************************************************)
SunTwin == Body(4, Mass1, Vector(<<RInt(0), RInt(0), RInt(0)>>),
                Vector(<<RInt(0), RInt(0), RInt(0)>>), "twin")
Sun3 == Body(5, Mass1, Vector(<<RInt(0), RInt(4), RInt(0)>>),
             Vector(<<RInt(0), RInt(0), RInt(0)>>), "sun3")
CallSystems == {<<>>, <<Earth>>, <<Sun, Earth>>, <<Sun, Sun2>>, <<Sun, SunTwin>>,
                <<Earth, Sun, Sun3>>, <<Earth, Sun, Sun2>>}
CallStates ==
    LET whole == {flatten(sys, TRUE).params : sys \in CallSystems}
    IN  whole \cup {SubSeq(v, 1, Len(v) - 1) : v \in whole \ {<<>>}}
CallMasses ==
    {flatten(sys, TRUE).masses : sys \in CallSystems} \cup {<<RInt(0)>>, <<Mass1, RInt(-1)>>}

\* n_body(t, current_state, masses)
CallNBody ==
    /\ call.op = "none"
    /\ \E current_state \in CallStates, masses \in CallMasses :
          call' = [op |-> "n_body",
                   args |-> [current_state |-> current_state, masses |-> masses],
                   exc |-> n_bodyRaises(current_state, masses),
                   value |-> IF n_bodyRaises(current_state, masses) = ""
                             THEN n_body(0, RZero, current_state, masses) ELSE <<>>]
    /\ UNCHANGED <<rk, gen, out, obs, sim, drv, app>>

\* flatten(bodies, split_mass)
CallFlatten ==
    /\ call.op = "none"
    /\ \E bodies \in CallSystems, split_mass \in BOOLEAN :
          call' = [op |-> "flatten",
                   args |-> [bodies |-> bodies, split_mass |-> split_mass],
                   exc |-> "",
                   value |-> flatten(bodies, split_mass)]
    /\ UNCHANGED <<rk, gen, out, obs, sim, drv, app>>

\* flatten(bodies), the bodies rebuilt from its result as n_body and the
\* driver rebuild them, and flatten of the rebuilt bodies
CallRoundTrip ==
    /\ call.op = "none"
    /\ \E bodies \in CallSystems :
          LET flat == flatten(bodies, TRUE)
              rebuilt == StateBodies(flat.params, flat.masses)
          IN  call' = [op |-> "roundtrip", args |-> [bodies |-> bodies], exc |-> "",
                       value |-> flat, rebuilt |-> rebuilt,
                       again |-> flatten(rebuilt, TRUE)]
    /\ UNCHANGED <<rk, gen, out, obs, sim, drv, app>>

BodyMasses == {RInt(-5), RInt(0), RInt(5), <<1, 2>>}
BodyVectors == {Vector(<<RInt(1), RInt(2), RInt(3)>>), Vector(<<RInt(3), RInt(3), RInt(3)>>),
                Vector(<<RInt(1), RInt(2), RInt(3), RInt(4)>>), Vector(<<RInt(1), RInt(2)>>),
                Vector(<<>>)}

\* body = Body(mass, position, velocity)
CallBody ==
    /\ call.op = "none"
    /\ \E mass \in BodyMasses, position \in BodyVectors, velocity \in BodyVectors :
          call' = [op |-> "Body",
                   args |-> [mass |-> mass, position |-> position, velocity |-> velocity],
                   exc |-> IF BodyRaises(mass, position, velocity) THEN "ValueError" ELSE "",
                   body |-> IF BodyRaises(mass, position, velocity) THEN <<>>
                            ELSE Body(0, mass, position, velocity, "@"),
                   n_sets |-> 0,
                   last |-> <<>>]
    /\ UNCHANGED <<rk, gen, out, obs, sim, drv, app>>

\* body.position = _v
CallSetPosition ==
    /\ call.op = "Body" /\ call.exc = ""
    /\ call.n_sets < MaxSetterCalls
    /\ \E _v \in BodyVectors :
          call' = [call EXCEPT !.body = BodySetPosition(call.body, _v).body,
                               !.n_sets = @ + 1,
                               !.last = [attr |-> "position", v |-> _v, before |-> call.body,
                                         exc |-> BodySetPosition(call.body, _v).exc]]
    /\ UNCHANGED <<rk, gen, out, obs, sim, drv, app>>

\* body.velocity = _v
CallSetVelocity ==
    /\ call.op = "Body" /\ call.exc = ""
    /\ call.n_sets < MaxSetterCalls
    /\ \E _v \in BodyVectors :
          call' = [call EXCEPT !.body = BodySetVelocity(call.body, _v).body,
                               !.n_sets = @ + 1,
                               !.last = [attr |-> "velocity", v |-> _v, before |-> call.body,
                                         exc |-> BodySetVelocity(call.body, _v).exc]]
    /\ UNCHANGED <<rk, gen, out, obs, sim, drv, app>>

TestVectors ==
    {Vector(<<>>),
     Vector(<<RInt(1), RInt(2), RInt(3), RInt(4)>>),
     Vector(<<RInt(4), RInt(3), RInt(2), RInt(1)>>),
     Vector(<<RInt(5), RInt(4), RInt(3), RInt(2), RInt(1)>>),
     Vector(<<RInt(0), RInt(0), RInt(0), RInt(0)>>),
     Vector(<<<<1, 2>>, RInt(-1), RInt(0), RInt(2)>>),
     Vector(<<RInt(7)>>),
     Vector(<<RInt(0)>>)}

\* the outcome of a binary operation of Vector: the exception or the value,
\* and the two operands after the call (a Vector has no mutating method)
Outcome(raises, value, u, v) ==
    IF raises THEN [exc |-> "ValueError", self |-> u, v |-> v]
    ELSE [exc |-> "", value |-> value, self |-> u, v |-> v]

\* u + v (and, for comparison, v + u)
CallVectorAdd ==
    /\ call.op = "none"
    /\ \E u \in TestVectors, v \in TestVectors :
          call' = [op |-> "add", args |-> [u |-> u, v |-> v]]
                  @@ Outcome(VectorAddRaises(u, v), VectorAdd(u, v), u, v)
                  @@ [rev |-> Outcome(VectorAddRaises(v, u), VectorAdd(v, u), v, u)]
    /\ UNCHANGED <<rk, gen, out, obs, sim, drv, app>>

\* u - v
CallVectorSub ==
    /\ call.op = "none"
    /\ \E u \in TestVectors, v \in TestVectors :
          call' = [op |-> "sub", args |-> [u |-> u, v |-> v]]
                  @@ Outcome(VectorSubRaises(u, v), VectorSub(u, v), u, v)
    /\ UNCHANGED <<rk, gen, out, obs, sim, drv, app>>

\* u @ v
CallVectorMatmul ==
    /\ call.op = "none"
    /\ \E u \in TestVectors, v \in TestVectors :
          call' = [op |-> "matmul", args |-> [u |-> u, v |-> v]]
                  @@ Outcome(VectorMatmulRaises(u, v), VectorMatmul(u, v), u, v)
    /\ UNCHANGED <<rk, gen, out, obs, sim, drv, app>>

TestIndices == -6..6
TestSliceBounds == {None} \cup {<<k>> : k \in -6..6}

\* u[i] with an int i
CallVectorGetitem ==
    /\ call.op = "none"
    /\ \E u \in TestVectors, i \in TestIndices :
          call' = [op |-> "getitem", args |-> [u |-> u, i |-> i]] @@ VectorGetitem(u, i)
    /\ UNCHANGED <<rk, gen, out, obs, sim, drv, app>>

\* u[start:stop]
CallVectorGetslice ==
    /\ call.op = "none"
    /\ \E u \in TestVectors, start \in TestSliceBounds, stop \in TestSliceBounds :
          call' = [op |-> "getslice", args |-> [u |-> u, start |-> start, stop |-> stop]]
                  @@ VectorGetslice(u, start, stop)
    /\ UNCHANGED <<rk, gen, out, obs, sim, drv, app>>

\* the matrices the harness works with
TestMatrices ==
    {Matrix(<<Vector(<<RInt(1), RInt(2), RInt(3)>>), Vector(<<RInt(1), RInt(2), RInt(3)>>)>>),
     Matrix(<<Vector(<<RInt(0), RInt(-1), <<1, 2>>>>), Vector(<<RInt(4), RInt(5), RInt(6)>>)>>),
     Matrix(<<Vector(<<RInt(1), RInt(2)>>), Vector(<<RInt(3), RInt(4)>>)>>),
     Matrix(<<Vector(<<RInt(0), RInt(1)>>), Vector(<<RInt(2), RInt(0)>>)>>),
     Matrix(<<Vector(<<RInt(1), RInt(0)>>), Vector(<<RInt(0), RInt(1)>>),
              Vector(<<RInt(2), RInt(-3)>>)>>),
     Matrix(<<Vector(<<RInt(5)>>)>>)}

TestNumbers == {RInt(0), RInt(2), <<-1, 2>>}

\* M + N
CallMatrixAdd ==
    /\ call.op = "none"
    /\ \E M \in TestMatrices, N \in TestMatrices :
          call' = [op |-> "madd", args |-> [M |-> M, N |-> N]] @@ MatrixAdd(M, N)
    /\ UNCHANGED <<rk, gen, out, obs, sim, drv, app>>

\* M - N
CallMatrixSub ==
    /\ call.op = "none"
    /\ \E M \in TestMatrices, N \in TestMatrices :
          call' = [op |-> "msub", args |-> [M |-> M, N |-> N]] @@ MatrixSub(M, N)
    /\ UNCHANGED <<rk, gen, out, obs, sim, drv, app>>

\* M * k
CallMatrixMul ==
    /\ call.op = "none"
    /\ \E M \in TestMatrices, k \in TestNumbers :
          call' = [op |-> "mmul", args |-> [M |-> M, k |-> k]] @@ MatrixMul(M, k)
    /\ UNCHANGED <<rk, gen, out, obs, sim, drv, app>>

\* M @ N
CallMatrixMatmul ==
    /\ call.op = "none"
    /\ \E M \in TestMatrices, N \in TestMatrices :
          call' = [op |-> "mmatmul", args |-> [M |-> M, N |-> N]] @@ MatrixMatmul(M, N)
    /\ UNCHANGED <<rk, gen, out, obs, sim, drv, app>>

\* the coordinates of a query: ints and slices around the matrix
TestCoordinates ==
    {Index(k) : k \in -1..3}
        \cup {Slice(a, b) : a, b \in {None} \cup {<<k>> : k \in 0..3}}
        \cup {Slice(<<-1>>, <<1>>), Slice(<<0>>, <<4>>)}

\* M[q0, q1]
CallMatrixGetitem ==
    /\ call.op = "none"
    /\ \E M \in TestMatrices, q0 \in TestCoordinates, q1 \in TestCoordinates :
          call' = [op |-> "mgetitem", args |-> [M |-> M, q0 |-> q0, q1 |-> q1]]
                  @@ MatrixGetitem(M, q0, q1)
    /\ UNCHANGED <<rk, gen, out, obs, sim, drv, app>>

\* the test ends
TearDown ==
    /\ call.op # "none"
    /\ call' = NoCall
    /\ UNCHANGED <<rk, gen, out, obs, sim, drv, app>>

NextCalls ==
    \/ CallNBody
    \/ CallFlatten
    \/ CallRoundTrip
    \/ CallBody
    \/ CallSetPosition
    \/ CallSetVelocity
    \/ CallVectorAdd
    \/ CallVectorSub
    \/ CallVectorMatmul
    \/ CallVectorGetitem
    \/ CallVectorGetslice
    \/ CallMatrixAdd
    \/ CallMatrixSub
    \/ CallMatrixMul
    \/ CallMatrixMatmul
    \/ CallMatrixGetitem
    \/ TearDown

SpecCalls == Init /\ [][NextCalls]_vars


(***************************************************************************)
(* Properties of the integrator (checked under Spec).                      *)
(***************************************************************************)
Started == gen.pc \notin {"none", "created"}

\* C1: with n >= 1 and a well-formed tableau, a fully consumed run_simulation()
\* has yielded exactly n + 1 states, never more at any moment, and once the
\* sequence has ended no further stage, yield or resumption is possible.
C1_YieldsNPlusOne ==
    Started =>
        /\ Len(out) <= obs.args.n + 1
        /\ obs.n_yield = Len(out)
        /\ gen.pc = "done" =>
              /\ obs.args.n >= 1
              /\ Len(out) = obs.args.n + 1
              /\ ~ ENABLED (TestStart \/ TestStage \/ TestYield \/ TestResume)

C1_Witness ==
    gen.pc = "done" /\ obs.args.cls = "ERK4" /\ obs.args.n = 2 /\ Len(out) = 3

\* The explicit Runge-Kutta rule, written from the constructor's arguments, the
\* state the step started from (obs.base) and the keyword parameters each
\* evaluation received.
RuleTab == Tableau(obs.args.cls)
RuleH == RDiv(RAdd(obs.args.tn, RNeg(obs.args.t0)), RInt(obs.args.n))
RuleTime(m, i) == RAdd(obs.args.t0, RMul(RAdd(RInt(m), RuleTab.c[i]), RuleH))
RuleFirstCall == obs.n_calls - Len(obs.calls)

RuleLinear(y, coefs, ks) ==
    [e \in 1..Len(y) |->
        NumAdd(y[e], NumSum([j \in 1..Len(ks) |-> NumScale(ks[j][e], coefs[j])]))]

\* The stages k_1 .. k_m of the current step and the arguments they are
\* evaluated on, by the rule.
RECURSIVE RuleStages(_)
RuleStages(m) ==
    IF m = 0 THEN [k |-> <<>>, arg |-> <<>>]
    ELSE LET prev == RuleStages(m - 1)
             arg == RuleLinear(obs.base, RuleTab.A[m], prev.k)
             f == FuncValue(obs.args.func, RuleFirstCall + m - 1, RuleTime(gen.it, m),
                            arg, obs.calls[m].kw)
         IN  [k |-> Append(prev.k, [e \in 1..Len(f) |-> NumScale(f[e], RuleH)]),
              arg |-> Append(prev.arg, arg)]

\* C2: every derivative evaluation of a step is made at time t + c[i]*h on the
\* state y + sum over j < i of A[i,j]*k_j, with k_i = h * f(...); the emitted
\* state is y + sum of b[i]*k_i and is the y of the next step; time advances
\* by h = (tn - t0)/n; the first step starts from y0 at t0.
C2_RungeKuttaRule ==
    gen.pc \in {"stage", "yielded"} =>
        LET nk == Len(gen.k_list)
            rule == RuleStages(nk)
        IN  /\ gen.it = 0 => obs.base = obs.args.y0
            /\ \A i \in 1..Len(obs.calls) : obs.calls[i].t = RuleTime(gen.it, i)
            /\ [i \in 1..nk |-> obs.calls[i].y] = rule.arg
            /\ Len(obs.calls) > nk =>
                  obs.calls[nk + 1].y = RuleLinear(obs.base, RuleTab.A[nk + 1], rule.k)
            /\ gen.k_list = rule.k
            /\ gen.pc = "yielded" =>
                  /\ nk = Len(RuleTab.c)
                  /\ gen.value = RuleLinear(obs.base, RuleTab.b, rule.k)
                  /\ out[Len(out)] = gen.value
                  /\ rk.y0 = gen.value
                  /\ rk.current_t = RAdd(obs.args.t0, RMul(RInt(gen.it + 1), RuleH))

C2_Witness ==
    /\ gen.pc = "yielded" /\ gen.it = 1 /\ obs.args.cls = "ERK4"
    /\ obs.args.func = "n_body" /\ Len(obs.args.y0) = 12

\* C3 (the claim as stated): a run on a tableau that is not s x s with
\* len(A) = len(b) = len(c) = s raises ValueError before any derivative
\* evaluation and emits no state.
WellFormed(tab) ==
    /\ Len(tab.A) = Len(tab.b) /\ Len(tab.b) = Len(tab.c)
    /\ \A i \in 1..Len(tab.A) : Len(tab.A[i]) = Len(tab.c)

C3_ShapeValidated ==
    (Started /\ ~ WellFormed(Tableau(rk.cls))) =>
        /\ gen.pc = "raised" /\ gen.exc = "ValueError"
        /\ obs.n_calls = 0 /\ obs.n_yield = 0

\* C4: a constructor call with t0 = tn or n <= 0 raises ValueError and stores
\* no step size, step count, current time or any other field, and no
\* derivative evaluation or run ever follows.
C4_ConstructorRejects ==
    (rk.status # "none" /\ (obs.args.t0 = obs.args.tn \/ obs.args.n <= 0)) =>
        /\ rk.status = "ValueError"
        /\ DOMAIN rk \cap {"func", "y0", "h", "n", "current_t", "f_kwargs"} = {}
        /\ obs.n_calls = 0 /\ gen.pc = "none"
        /\ ~ ENABLED (TestSetKwargs \/ TestRunSimulation)

C4_Witness ==
    /\ rk.status = "ValueError" /\ obs.args.n <= 0 /\ obs.args.t0 # obs.args.tn

\* C5: without a set_func_kwargs call during the run, every derivative
\* evaluation of the run receives exactly the keyword parameters last given to
\* set_func_kwargs, and none when it was never called.
C5_KwargsForwarded ==
    /\ (Started /\ ~ obs.kw_midrun) =>
          /\ obs.kw_seen \subseteq {obs.kw_given}
          /\ \A i \in 1..Len(obs.calls) : obs.calls[i].kw = obs.kw_given
    /\ obs.n_sets = 0 => obs.kw_seen \subseteq {NoKwargs}

C5_Witness ==
    /\ gen.pc = "done" /\ obs.n_sets > 0 /\ ~ obs.kw_midrun
    /\ obs.n_calls >= 8 /\ obs.kw_seen = {[masses |-> <<Mass1, Mass2>>]}


(***************************************************************************)
(* Properties of the driver (checked under SpecSim).                       *)
(***************************************************************************)
\* the last call of run_simulation has returned normally
RunCompleted == drv.runs > 0 /\ drv.pc = "idle" /\ drv.exc = ""

\* C6: a completed run with step S dividing duration D has produced exactly
\* D/S states: the energy series holds 1 + D/S entries and every trajectory
\* holds D/S points.
C6_DriverStateCount ==
    (RunCompleted /\ sim.duration % sim.step = 0) =>
        LET k == sim.duration \div sim.step
        IN  /\ Len(out) = k
            /\ \A c \in {"x", "y", "dy"} : Len(sim.error[c]) = 1 + k
            /\ \A i \in 1..Len(sim.statedict) :
                  \A c \in {"x", "y", "z"} : Len(sim.statedict[i][c]) = k

\* the energy series in sim.error is the one of the run in progress or last run
SeriesOfRun == drv.runs > 0 /\ drv.raised_in # "hamiltonian(data)"

\* C7: the first value of the Hamiltonian series is the Hamiltonian of the
\* input bodies and its delta is 0; every later value is the Hamiltonian of the
\* bodies rebuilt from the emitted state of that index with the input masses in
\* input order, and its delta is the difference to the value before it.
C7_EnergyBookkeeping ==
    SeriesOfRun =>
        LET y == sim.error.y
            dy == sim.error.dy
            masses == [i \in 1..Len(sim.data) |-> sim.data[i].mass]
            rebuilt == [i \in 1..Len(out) |->
                hamiltonian([b \in 1..Len(masses) |->
                    [mass |-> masses[b],
                     position |-> <<out[i][6 * b - 5], out[i][6 * b - 4], out[i][6 * b - 3]>>,
                     velocity |-> <<out[i][6 * b - 2], out[i][6 * b - 1], out[i][6 * b]>>]])]
        IN  /\ y[1] = hamiltonian(sim.data)
            /\ dy[1] = NumZero
            /\ Len(dy) = Len(y)
            /\ Len(y) \in {Len(out), Len(out) + 1}
            /\ SubSeq(y, 2, Len(y)) = SubSeq(rebuilt, 1, Len(y) - 1)
            /\ SubSeq(dy, 2, Len(y)) = [i \in 1..(Len(y) - 1) |-> NumSub(y[i + 1], y[i])]

C7_Witness ==
    /\ SeriesOfRun
    /\ Len(sim.data) = 2
    /\ Len(sim.error.y) = 3
    /\ sim.error.dy[3] # NumZero
    /\ sim.error.y[3] # sim.error.y[1]

\* C8: the per-step callback is called once per emitted state, with indices
\* 0, 1, 2, ... in order, when that state's points and energy entries are
\* recorded and no derivative of the next step has been evaluated; the
\* completion callback is called at most once, after the last per-step
\* callback returned, and exactly once in a completed run.
C8_CallbackProtocol ==
    drv.runs > 0 =>
        /\ \A i \in 1..Len(drv.cb) :
              /\ drv.cb[i].t = i - 1
              /\ drv.cb[i].n_yield = i
              /\ drv.cb[i].n_calls = i * Len(ERK4_c)
              /\ drv.cb[i].points \subseteq {i}
              /\ drv.cb[i].entries = {i + 1}
        /\ Len(drv.cb) \in {Len(out) - 1, Len(out)}
        /\ drv.pc \in {"next", "iter", "after"} => Len(drv.cb) = Len(out)
        /\ drv.after <= 1
        /\ drv.after = 1 =>
              /\ gen.pc = "done"
              /\ drv.after_at = Len(out)
              /\ Len(drv.cb) = Len(out)
              /\ drv.pc = "idle"
        /\ drv.pc = "after" => drv.after = 0
        /\ RunCompleted => drv.after = 1

C8_Witness ==
    /\ RunCompleted
    /\ Len(drv.cb) = 3
    /\ Len(sim.data) = 2
    /\ drv.after = 1

\* C9: when a derivative evaluation, the Hamiltonian recomputation or the
\* per-step callback raises, run_simulation ends with that exception: no
\* further step, recording or callback can happen in that run and the
\* completion callback has not been called.
C9_FailedStepAborts ==
    drv.raised # "" =>
        /\ drv.exc = drv.raised
        /\ drv.pc = "idle"
        /\ ~ ENABLED (SimSetKwargs \/ SimRunIntegrator \/ SimStart \/ SimStage \/ SimYield
                      \/ SimRecord \/ SimCallback \/ SimResume \/ SimAfter)
        /\ drv.raised_in \in {"n_body", "hamiltonian", "loop_callBack"} =>
              /\ drv.after = 0
              /\ gen.pc # "done"

C9_Witness ==
    /\ drv.raised_in = "loop_callBack"
    /\ Len(drv.cb) = 1
    /\ rk.n = 2
    /\ drv.exc = "Exception"

\* C10: show_results raises RuntimeError exactly when no call of
\* run_simulation has run to completion.
C10_ShowResultsSequencing ==
    drv.show # "" => (drv.show = "RuntimeError" <=> drv.completed = 0)

\* C11: SOLARSimulator(data, duration, step) raises BodyError when a body
\* appears twice or two bodies have all three coordinates equal, ValueError
\* (when no BodyError) for duration <= 0 and for a step outside ]0, duration],
\* and succeeds for every other input; a failed construction stores nothing,
\* evaluates nothing and leaves no object to run.
C11_SimulatorPreconditions ==
    call.op = "SOLARSimulator" =>
        LET a == call.args
            k == Len(a.data)
            clash == \E i, j \in 1..k :
                        /\ i < j
                        /\ \/ a.data[i].id = a.data[j].id
                           \/ \A c \in 1..3 : a.data[i].position[c] = a.data[j].position[c]
            bad == a.duration <= 0 \/ a.step <= 0 \/ a.step > a.duration
        IN  /\ clash => call.exc = "BodyError"
            /\ (~ clash /\ bad) => call.exc = "ValueError"
            /\ (~ clash /\ ~ bad) =>
                  /\ call.exc = ""
                  /\ sim.status = "ready"
                  /\ sim.data = a.data /\ sim.duration = a.duration /\ sim.step = a.step
            /\ call.exc # "" =>
                  /\ sim = [status |-> call.exc]
                  /\ rk.status = "none" /\ gen.pc = "none" /\ obs.n_calls = 0
                  /\ ~ ENABLED (SimRunStart \/ SimShowResults)

C11_Witness ==
    /\ call.op = "SOLARSimulator"
    /\ call.exc = "BodyError"
    /\ Len(call.args.data) = 2
    /\ call.args.data[1].id # call.args.data[2].id
    /\ call.args.duration > 0 /\ call.args.step <= call.args.duration


(***************************************************************************)
(* Properties of the functions (checked under SpecCalls).                  *)
(***************************************************************************)
\* C12: for masses that are all > 0, n_body raises ValueError when
\* 6 * len(masses) differs from len(current_state), and otherwise returns a
\* vector of the length of current_state, a multiple of 6.
C12_StateLengthInvariant ==
    (call.op = "n_body" /\ \A i \in 1..Len(call.args.masses) : call.args.masses[i][1] > 0) =>
        LET n == Len(call.args.current_state)
            k == Len(call.args.masses)
        IN  /\ 6 * k # n => call.exc = "ValueError"
            /\ 6 * k = n =>
                  /\ call.exc = ""
                  /\ Len(call.value) = n
                  /\ n % 6 = 0

C12_Witness ==
    /\ call.op = "n_body"
    /\ call.exc = ""
    /\ Len(call.value) = 18

\* positions of a returned derivative whose body shares its position with
\* another body of the state
Coincident(state, i) ==
    \E j \in 1..(Len(state) \div 6) :
        j # i /\ \A c \in 1..3 : state[6 * (j - 1) + c] = state[6 * (i - 1) + c]

\* C13: in the derivative n_body returns for k bodies, entries 6i..6i+2 are
\* the input velocity of body i and entries 6i+3..6i+5 its acceleration, which
\* has exactly one term for each other body j (k - 1 terms), whatever values
\* the bodies share; at a shared position the terms are not finite.
C13_DerivativeLayout ==
    (call.op = "n_body" /\ call.exc = "") =>
        LET state == call.args.current_state
            k == Len(call.args.masses)
        IN  \A i \in 1..k :
              /\ \A c \in 1..3 : call.value[6 * (i - 1) + c] = state[6 * (i - 1) + 3 + c]
              /\ \A c \in 1..3 :
                    LET acc == call.value[6 * (i - 1) + 3 + c]
                    IN  IF Coincident(state, i) THEN acc = NaN
                        ELSE /\ Cardinality(DOMAIN acc) = k - 1
                             /\ \A j \in (1..k) \ {i} :
                                   \E a \in DOMAIN acc :
                                      /\ a[1] = "acc" /\ a[3] = i /\ a[4] = j
                                      /\ a[5] = call.args.masses[j] /\ a[6] = c
                                      /\ acc[a] = ROne

C13_Witness ==
    /\ call.op = "n_body"
    /\ call.exc = ""
    /\ Len(call.args.masses) = 3
    /\ call.args.masses[2] = call.args.masses[3]
    /\ ~ Coincident(call.args.current_state, 1)
    /\ Coincident(call.args.current_state, 2)
    /\ Cardinality(DOMAIN call.value[4]) = 2

\* C14: a call of n_body on a state in which two bodies have the same
\* position raises instead of returning a derivative.
C14_ZeroDistanceRaises ==
    (/\ call.op = "n_body"
     /\ \A i \in 1..Len(call.args.masses) : call.args.masses[i][1] > 0
     /\ 6 * Len(call.args.masses) = Len(call.args.current_state)
     /\ \E i \in 1..Len(call.args.masses) : Coincident(call.args.current_state, i)) =>
        call.exc # ""

\* C15: flatten of k bodies with split_mass returns 6k entries, the position
\* then the velocity of each body in input order, and the k masses in the same
\* order; without split_mass it returns 7k entries, the mass, the position and
\* the velocity of each body; for no body it returns the empty vector (and
\* the empty mass sequence).
C15_FlattenLayout ==
    call.op = "flatten" =>
        LET bodies == call.args.bodies
            k == Len(bodies)
        IN  /\ call.exc = ""
            /\ call.args.split_mass =>
                  /\ Len(call.value.params) = 6 * k
                  /\ Len(call.value.masses) = k
                  /\ \A i \in 1..k :
                        /\ call.value.masses[i] = bodies[i].mass
                        /\ \A c \in 1..3 :
                              /\ call.value.params[6 * (i - 1) + c] = bodies[i].position[c]
                              /\ call.value.params[6 * (i - 1) + 3 + c] = bodies[i].velocity[c]
            /\ ~ call.args.split_mass =>
                  /\ Len(call.value) = 7 * k
                  /\ \A i \in 1..k :
                        /\ call.value[7 * (i - 1) + 1] = Num(bodies[i].mass)
                        /\ \A c \in 1..3 :
                              /\ call.value[7 * (i - 1) + 1 + c] = bodies[i].position[c]
                              /\ call.value[7 * (i - 1) + 4 + c] = bodies[i].velocity[c]
            /\ k = 0 =>
                  call.value = IF call.args.split_mass
                               THEN [params |-> <<>>, masses |-> <<>>] ELSE <<>>

C15_Witness ==
    /\ call.op = "flatten"
    /\ ~ call.args.split_mass
    /\ Len(call.value) = 21
    /\ call.value[2] # call.value[5]

\* C16: Body(mass, position, velocity) raises ValueError exactly when
\* mass <= 0 or position or velocity has not 3 elements; after any sequence of
\* setter calls the mass is the one given at construction and > 0 and position
\* and velocity have 3 elements each; a setter call that raises leaves the
\* body as it was and a successful one replaces only the attribute it names.
C16_BodyInvariant ==
    call.op = "Body" =>
        /\ call.exc = "ValueError" <=>
              \/ call.args.mass[1] <= 0
              \/ Len(call.args.position) # 3
              \/ Len(call.args.velocity) # 3
        /\ call.exc \in {"", "ValueError"}
        /\ call.exc = "" =>
              /\ call.body.mass = call.args.mass
              /\ call.body.mass[1] > 0
              /\ Len(call.body.position) = 3
              /\ Len(call.body.velocity) = 3
              /\ call.n_sets = 0 =>
                    /\ call.body.position = call.args.position
                    /\ call.body.velocity = call.args.velocity
        /\ (call.exc = "" /\ call.last # <<>>) =>
              LET other == IF call.last.attr = "position" THEN "velocity" ELSE "position"
              IN  /\ call.last.exc = "ValueError" <=> Len(call.last.v) # 3
                  /\ call.last.exc # "" => call.body = call.last.before
                  /\ call.last.exc = "" =>
                        /\ call.body[call.last.attr] = call.last.v
                        /\ call.body[other] = call.last.before[other]
                        /\ call.body.mass = call.last.before.mass

C16_Witness ==
    /\ call.op = "Body"
    /\ call.exc = ""
    /\ call.n_sets = 2
    /\ call.last.exc = "ValueError"
    /\ call.last.attr = "position"
    /\ call.body.velocity # call.args.velocity

BinaryOps == {"add", "sub", "matmul"}

C18_AdditionLaws ==
    (call.op = "add" /\ Len(call.args.u) = Len(call.args.v)) =>
        LET u == call.args.u
            v == call.args.v
        IN  /\ call.exc = "" /\ call.rev.exc = ""
            /\ Len(call.value) = Len(u)
            /\ \A i \in 1..Len(u) :
                  /\ VectorGetitem(call.value, i - 1).exc = ""
                  /\ Coef(VectorGetitem(call.value, i - 1).value, One)
                        = RAdd(Coef(u[i], One), Coef(v[i], One))
                  /\ DOMAIN call.value[i] \subseteq {One}
            /\ VectorEq(call.value, call.rev.value)
            /\ (\A i \in 1..Len(v) : v[i] = NumZero) => VectorEq(call.value, u)
            /\ call.self = u /\ call.v = v

C18_Witness ==
    /\ call.op = "add"
    /\ Len(call.args.u) = 4 /\ Len(call.args.v) = 4
    /\ call.args.u # call.args.v
    /\ call.value # call.args.u
    /\ call.value[1] = Num(<<3, 2>>)

\* C19: u @ v returns 0 whenever u or v is the zero-dimension vector.
C19_DotWithEmptyIsZero ==
    (call.op = "matmul" /\ (Len(call.args.u) = 0 \/ Len(call.args.v) = 0)) =>
        /\ call.exc = ""
        /\ call.value = NumZero

\* C20: u[i] raises IndexError for every int i outside [0, len) and returns
\* the i-th element otherwise; u[start:stop] raises IndexError when start or
\* stop lies outside [0, len] and returns the selected elements otherwise.
C20_BoundsChecked ==
    /\ call.op = "getitem" =>
          IF call.args.i < 0 \/ call.args.i >= Len(call.args.u)
          THEN call.exc = "IndexError"
          ELSE call.exc = "" /\ call.value = call.args.u[call.args.i + 1]
    /\ call.op = "getslice" =>
          LET n == Len(call.args.u)
              start == call.args.start
              stop == call.args.stop
              outside(b) == b # None /\ (b[1] < 0 \/ b[1] > n)
          IN  IF outside(start) \/ outside(stop)
              THEN call.exc = "IndexError"
              ELSE /\ call.exc = ""
                   /\ call.value = SubSeq(call.args.u,
                                          (IF start = None THEN 0 ELSE start[1]) + 1,
                                          IF stop = None THEN n ELSE stop[1])

SameShape(M, N) == lines(M) = lines(N) /\ columns(M) = columns(N)

\* C21: for matrices M, N of identical shape M + N and M - N are defined and
\* are the elementwise sum and difference, of the same shape, and M * k is
\* the elementwise scaling; for M, N of different shapes M + N and M - N
\* raise a shape error.
C21_ElementwiseOperations ==
    /\ call.op \in {"madd", "msub"} =>
          LET M == call.args.M
              N == call.args.N
          IN  IF SameShape(M, N)
              THEN /\ call.exc = ""
                   /\ SameShape(call.value, M)
                   /\ \A i \in 1..lines(M), j \in 1..columns(M) :
                         call.value[i][j] = IF call.op = "madd"
                                            THEN NumAdd(M[i][j], N[i][j])
                                            ELSE NumSub(M[i][j], N[i][j])
              ELSE call.exc = "ValueError"
    /\ call.op = "mmul" =>
          LET M == call.args.M
          IN  /\ call.exc = ""
              /\ SameShape(call.value, M)
              /\ \A i \in 1..lines(M), j \in 1..columns(M) :
                    call.value[i][j] = NumScale(M[i][j], call.args.k)

\* C22: for a left matrix of shape Z x Y and a right matrix of shape Y x W
\* the product has shape Z x W and its entry [i, j] is the dot product of
\* line i of the left with column j of the right; when the number of columns
\* of the left differs from the number of lines of the right, ValueError is
\* raised and no matrix is produced.
C22_MatmulDimensionRule ==
    call.op = "mmatmul" =>
        LET M == call.args.M
            N == call.args.N
        IN  IF columns(M) = lines(N)
            THEN /\ call.exc = ""
                 /\ lines(call.value) = lines(M)
                 /\ \A i \in 1..lines(M) :
                       /\ Len(call.value[i]) = columns(N)
                       /\ \A j \in 1..columns(N) :
                             call.value[i][j] =
                                NumSum([k \in 1..columns(M) |->
                                    Num(RMul(Coef(M[i][k], One), Coef(N[k][j], One)))])
            ELSE /\ call.exc = "ValueError"
                 /\ "value" \notin DOMAIN call

C22_Witness ==
    /\ call.op = "mmatmul"
    /\ lines(call.args.M) = 3 /\ columns(call.args.M) = 2
    /\ lines(call.args.N) = 2 /\ columns(call.args.N) = 3
    /\ call.exc = ""
    /\ lines(call.value) = 3 /\ columns(call.value) = 3
    /\ call.value[3][3] = Num(<<-17, 1>>)

\* what a coordinate selects of an axis of the given extent: whether it lies
\* outside the axis, and the first and last selected positions (from 1)
Outside(q, extent) ==
    IF q.kind = "int" THEN q.start[1] < 0 \/ q.start[1] >= extent
    ELSE \/ q.start # None /\ (q.start[1] < 0 \/ q.start[1] > extent)
         \/ q.stop # None /\ (q.stop[1] < 0 \/ q.stop[1] > extent)
First(q) == IF q.start = None THEN 1 ELSE q.start[1] + 1
Last(q, extent) ==
    IF q.kind = "int" THEN q.start[1] + 1
    ELSE IF q.stop = None THEN extent ELSE q.stop[1]

\* C23: M[q0, q1] dispatches on which coordinates are ranges: (range, range)
\* gives the sub-matrix of exactly the selected lines and columns,
\* (range, int) the column restricted to the selected lines, (int, range)
\* the selected part of that line, (int, int) the entry; a coordinate
\* outside [0, extent) on either axis raises a boundary error.
C23_IndexDispatch ==
    call.op = "mgetitem" =>
        LET M == call.args.M
            q0 == call.args.q0
            q1 == call.args.q1
            r1 == First(q0)
            rn == Last(q0, lines(M))
            c1 == First(q1)
            cn == Last(q1, columns(M))
        IN  IF Outside(q0, lines(M)) \/ Outside(q1, columns(M))
            THEN call.exc \in {"IndexError", "ValueError"}
            ELSE (r1 <= rn /\ c1 <= cn) =>
                    /\ call.exc = ""
                    /\ call.value =
                          CASE q0.kind = "slice" /\ q1.kind = "slice" ->
                                  [r \in 1..(rn - r1 + 1) |->
                                      [c \in 1..(cn - c1 + 1) |-> M[r1 + r - 1][c1 + c - 1]]]
                            [] q0.kind = "slice" /\ q1.kind = "int" ->
                                  [r \in 1..(rn - r1 + 1) |-> M[r1 + r - 1][c1]]
                            [] q0.kind = "int" /\ q1.kind = "slice" ->
                                  [c \in 1..(cn - c1 + 1) |-> M[r1][c1 + c - 1]]
                            [] OTHER -> M[r1][c1]

\* C24: the bodies rebuilt from the (state, masses) pair of flatten, the i-th
\* 6 entries of the state with the i-th mass, have the mass, position and
\* velocity of the i-th flattened body, and flattening them gives the same
\* state and the same masses.
C24_StateCodecRoundTrip ==
    call.op = "roundtrip" =>
        LET bodies == call.args.bodies
        IN  /\ Len(call.rebuilt) = Len(bodies)
            /\ \A i \in 1..Len(bodies) :
                  /\ call.rebuilt[i].mass = bodies[i].mass
                  /\ call.rebuilt[i].position = bodies[i].position
                  /\ call.rebuilt[i].velocity = bodies[i].velocity
            /\ call.again.params = call.value.params
            /\ call.again.masses = call.value.masses

C24_Witness ==
    /\ call.op = "roundtrip"
    /\ Len(call.args.bodies) = 2
    /\ call.args.bodies[1].mass # call.args.bodies[2].mass
    /\ call.args.bodies[2].position # call.args.bodies[2].velocity
    /\ Len(call.value.params) = 12
    /\ call.again = call.value


(***************************************************************************)
(* Properties of the integrator's objects, laziness and time.              *)
(***************************************************************************)
\* C25: run_simulation never modifies the initial state object given to the
\* constructor, and an emitted state vector is never changed by a later
\* step: every emitted object still holds the value it was emitted with, and
\* the emitted objects are distinct from each other and from the initial one.
C25_StatesNeverModified ==
    rk.status = "ready" =>
        /\ obs.heap[1] = obs.args.y0
        /\ Len(obs.emitted) = Len(out)
        /\ \A k \in 1..Len(out) :
              /\ obs.heap[obs.emitted[k]] = out[k]
              /\ obs.emitted[k] # 1
              /\ \A j \in 1..(k - 1) : obs.emitted[j] # obs.emitted[k]
        /\ obs.heap[rk.y0_id] = rk.y0

C25_Witness ==
    /\ gen.pc = "done"
    /\ Len(out) = 3
    /\ out[1] # obs.args.y0
    /\ out[2] # out[1] /\ out[3] # out[2]
    /\ obs.heap[1] = obs.args.y0
    /\ obs.heap[obs.emitted[1]] = out[1]

\* C26: run_simulation() evaluates no derivative until the first state is
\* requested; each emitted state costs exactly s derivative evaluations; and
\* a sequence obtained from the same integrator after k >= 1 states were
\* emitted evaluates first at time t0 + (k + c[1]) h on the state emitted
\* last, not at the start time on the initial state.
C26_LazyNotRestartable ==
    rk.status = "ready" =>
        LET s == Len(Tableau(rk.cls).c)
            k == obs.resumed_at
            a == obs.args
            h == RDiv(RAdd(a.tn, RNeg(a.t0)), RInt(a.n))
        IN  /\ gen.pc = "created" => obs.n_calls = s * obs.n_yield /\ obs.calls = <<>>
            /\ gen.pc \in {"yielded", "done"} =>
                  obs.n_calls = s * obs.n_yield /\ Len(obs.calls) = s
            /\ (obs.sequences > 1 /\ k >= 1 /\ gen.it = 0 /\ Len(obs.calls) >= 1) =>
                  /\ obs.calls[1].t = RAdd(a.t0, RMul(RAdd(RInt(k), Tableau(rk.cls).c[1]), h))
                  /\ obs.calls[1].t # RAdd(a.t0, RMul(Tableau(rk.cls).c[1], h))
                  /\ obs.calls[1].y = out[k]

C26_Witness ==
    /\ obs.sequences = 2
    /\ obs.resumed_at = 2
    /\ gen.pc = "yielded" /\ gen.it = 0
    /\ Len(out) = 3
    /\ obs.calls[1].y = out[2]
    /\ out[2] # obs.args.y0

\* C28: on iteration m (0 <= m <= n) stage i evaluates the derivative at time
\* t0 + (m + c[i]) h; the current time after the m-th emitted state is
\* t0 + (m + 1) h; so after the whole sequence the current time is
\* t0 + (n + 1) h = tn + h, the last iteration having evaluated the
\* derivative at the times tn + c[i] h.
C28_TimeBookkeeping ==
    (rk.status = "ready" /\ gen.pc \notin {"none", "created"}) =>
        LET a == obs.args
            c == Tableau(rk.cls).c
            h == RDiv(RAdd(a.tn, RNeg(a.t0)), RInt(a.n))
            at(x) == RAdd(a.t0, RMul(x, h))
        IN  /\ gen.it \in 0..a.n
            /\ \A i \in 1..Len(obs.calls) :
                  obs.calls[i].t = at(RAdd(RInt(gen.it), c[i]))
            /\ gen.pc = "stage" => rk.current_t = at(RInt(gen.it))
            /\ gen.pc = "yielded" => rk.current_t = at(RInt(gen.it + 1))
            /\ gen.pc = "done" =>
                  /\ gen.it = a.n
                  /\ rk.current_t = at(RInt(a.n + 1))
                  /\ rk.current_t = RAdd(a.tn, h)
                  /\ \A i \in 1..Len(obs.calls) :
                        obs.calls[i].t = RAdd(a.tn, RMul(c[i], h))

C28_Witness ==
    /\ gen.pc = "done"
    /\ rk.cls = "ERK4"
    /\ obs.args.n = 2
    /\ Len(obs.calls) = 4
    /\ obs.calls[1].t = obs.args.tn
    /\ obs.calls[2].t # obs.args.tn
    /\ obs.calls[4].t = rk.current_t
    /\ rk.current_t # obs.args.tn


(***************************************************************************)
(* Properties of the driver's series and of the integrator it builds.      *)
(***************************************************************************)
\* C29: at the per-step callback of index t, and after completion with t the
\* index of the last callback, the time, value and delta lists of the energy
\* series have length t + 2 and the x, y and z lists of every body have
\* length t + 1; the times are time[0] = 0 and time[i] = (i - 1) * step hours
\* for i >= 1, so the first two times are both 0.
C29_SeriesShape ==
    (sim.status = "ready" /\ drv.runs > 0 /\ (drv.pc = "callback" \/ RunCompleted)) =>
        LET t == IF drv.pc = "callback" THEN drv.t ELSE drv.cb[Len(drv.cb)].t
            time == sim.error.x
        IN  /\ Len(time) = t + 2
            /\ Len(sim.error.y) = t + 2
            /\ Len(sim.error.dy) = t + 2
            /\ \A i \in 1..Len(sim.statedict) :
                  /\ Len(sim.statedict[i].x) = t + 1
                  /\ Len(sim.statedict[i].y) = t + 1
                  /\ Len(sim.statedict[i].z) = t + 1
            /\ time[1] = 0
            /\ time[2] = 0
            /\ \A i \in 2..Len(time) : time[i] = (i - 2) * sim.step

C29_Witness ==
    /\ drv.pc = "callback"
    /\ drv.t = 2
    /\ Len(sim.data) = 2
    /\ sim.error.x = <<0, 0, 1, 2>>
    /\ Len(sim.statedict[2].z) = 3

\* C30: for every duration and step the constructor accepts, run_simulation
\* builds the integrator over [0, duration * 3600] with n = floor(duration /
\* step) >= 1 steps, so the integrator's constructor never rejects it; the
\* step size is duration * 3600 / n, which is step * 3600 exactly when step
\* divides duration.
C30_ValidatedConfiguration ==
    sim.status = "ready" =>
        /\ rk.status \in {"none", "ready"}
        /\ drv.pc \in {"kwargs", "call", "iter", "record", "callback", "next", "after"} =>
              rk.status = "ready"
        /\ drv.raised_in # "ERK4"
        /\ rk.status = "ready" =>
              LET n == sim.duration \div sim.step
              IN  /\ n >= 1
                  /\ n * sim.step <= sim.duration /\ sim.duration < (n + 1) * sim.step
                  /\ rk.n = n
                  /\ obs.args.t0 = RZero
                  /\ obs.args.tn = RInt(sim.duration * 3600)
                  /\ rk.h = Q(sim.duration * 3600, n)
                  /\ (rk.h = RInt(sim.step * 3600)) <=> (sim.duration % sim.step = 0)

C30_Witness ==
    /\ sim.status = "ready"
    /\ rk.status = "ready"
    /\ sim.duration = 3 /\ sim.step = 2
    /\ rk.n = 1
    /\ rk.h = RInt(10800)
    /\ gen.pc = "done"


(***************************************************************************)
(* Cancellation in the application.                                        *)
(***************************************************************************)
\* C27: a cancel request stops exactly the simulation during which it was
\* issued: the completion callback of that simulation is not invoked and
\* its results are neither scheduled nor shown; a simulation stopped by the
\* flag ends with the flag cleared; and a simulation is only ever stopped
\* by a request issued during it, so a set flag belongs to the simulation
\* in progress.
C27_CooperativeCancellation ==
    /\ \A r \in app.requested :
          r \notin app.closed /\ r \notin app.scheduled /\ r \notin app.shown
    /\ app.thread = "exited" => ~app.cancel /\ app.run \in app.cancelled
    /\ \A r \in app.cancelled : r \in app.requested
    /\ app.cancel => app.run \in app.requested

====
